---- MODULE Spec2Model ----
(***************************************************************************)
(* Model of the chunk extraction engine of src/enhanced_chunker.py         *)
(* (class EnhancedChunker).  A Python str is a sequence of one-character   *)
(* strings; Python's None is the value None below.  Row and column indices *)
(* are 0-based as in the source; TLA+ sequences are 1-based, so grid[r][c] *)
(* of the source is grid[r + 1][c + 1] here.                               *)
(***************************************************************************)
EXTENDS Integers, Sequences, FiniteSets, TLC

\* ------------------------------------------------------------------------
\* Characters and str primitives
\* ------------------------------------------------------------------------

\* Python's None; no str is equal to it (its element is not a character).
None == <<"<None>">>

\* Characters matched by \s and removed by str.strip().
Whitespace == {" ", "\n", "\t"}

\* Characters matched by \d.
Digits == {"0", "1", "2", "3", "4", "5", "6", "7", "8", "9"}

UpperLetters ==
    <<"A", "B", "C", "D", "E", "F", "G", "H", "I", "J", "K", "L", "M",
      "N", "O", "P", "Q", "R", "S", "T", "U", "V", "W", "X", "Y", "Z">>

LowerLetters ==
    <<"a", "b", "c", "d", "e", "f", "g", "h", "i", "j", "k", "l", "m",
      "n", "o", "p", "q", "r", "s", "t", "u", "v", "w", "x", "y", "z">>

UpperSet == {UpperLetters[i] : i \in DOMAIN UpperLetters}

LowerSet == {LowerLetters[i] : i \in DOMAIN LowerLetters}

\* str.isalpha() of one character.
isalpha(c) == c \in UpperSet \/ c \in LowerSet

\* str.lower() of one character.
LowerChar(c) ==
    IF c \in UpperSet
    THEN LowerLetters[CHOOSE i \in DOMAIN UpperLetters : c = UpperLetters[i]]
    ELSE c

\* str.lower().
lower(s) == [i \in 1..Len(s) |-> LowerChar(s[i])]

\* str.strip(): drop leading and trailing whitespace.
strip(s) ==
    IF \A i \in 1..Len(s) : s[i] \in Whitespace THEN << >>
    ELSE LET a == CHOOSE i \in 1..Len(s) :
                      s[i] \notin Whitespace /\ \A j \in 1..(i - 1) : s[j] \in Whitespace
             b == CHOOSE i \in 1..Len(s) :
                      s[i] \notin Whitespace /\ \A j \in (i + 1)..Len(s) : s[j] \in Whitespace
         IN SubSeq(s, a, b)

\* str.rstrip(':'): drop every trailing colon.
rstrip_colon(s) ==
    IF \A i \in 1..Len(s) : s[i] = ":" THEN << >>
    ELSE LET b == CHOOSE i \in 1..Len(s) :
                      s[i] # ":" /\ \A j \in (i + 1)..Len(s) : s[j] = ":"
         IN SubSeq(s, 1, b)

\* len(s.split()): the number of maximal runs of non-whitespace characters.
WordCount(s) ==
    Cardinality({i \in 1..Len(s) :
                    s[i] \notin Whitespace /\ (i = 1 \/ s[i - 1] \in Whitespace)})

\* s.startswith(p).
startswith(s, p) == Len(s) >= Len(p) /\ SubSeq(s, 1, Len(p)) = p

\* s.find(p): the 0-based index of the first occurrence of p in s, or -1.
find(s, p) ==
    LET at(i) == SubSeq(s, i, i + Len(p) - 1) = p
        last  == Len(s) - Len(p) + 1
    IN IF \E i \in 1..last : at(i)
       THEN (CHOOSE i \in 1..last : at(i) /\ \A j \in 1..(i - 1) : ~at(j)) - 1
       ELSE -1

\* sep.join(parts) for a list of str.
RECURSIVE join(_, _)
join(sep, parts) ==
    IF parts = << >> THEN << >>
    ELSE IF Len(parts) = 1 THEN parts[1]
    ELSE parts[1] \o sep \o join(sep, Tail(parts))

\* s.split(sep) for a non-empty separator: the parts between the
\* non-overlapping occurrences of sep, scanning left to right.
RECURSIVE split(_, _)
split(s, sep) ==
    LET k == find(s, sep)
    IN IF k = -1 THEN <<s>>
       ELSE <<SubSeq(s, 1, k)>> \o split(SubSeq(s, k + Len(sep) + 1, Len(s)), sep)

\* The characters s[i], lo <= i <= hi, with keep[i] true, in order.
RECURSIVE Pick(_, _, _, _)
Pick(s, keep, lo, hi) ==
    IF lo > hi THEN << >>
    ELSE IF lo = hi THEN (IF keep[lo] THEN <<s[lo]>> ELSE << >>)
    ELSE LET mid == (lo + hi) \div 2
         IN Pick(s, keep, lo, mid) \o Pick(s, keep, mid + 1, hi)

\* re.sub(r'\s+', ' ', s): every maximal whitespace run becomes one space.
collapse_whitespace(s) ==
    LET t    == [i \in 1..Len(s) |-> IF s[i] \in Whitespace THEN " " ELSE s[i]]
        keep == [i \in 1..Len(s) |->
                    s[i] \notin Whitespace \/ i = 1 \/ s[i - 1] \notin Whitespace]
    IN Pick(t, keep, 1, Len(s))

\* str(n) for n >= 0.
RECURSIVE IntToStr(_)
IntToStr(n) ==
    LET d == <<"0", "1", "2", "3", "4", "5", "6", "7", "8", "9">>[(n % 10) + 1]
    IN IF n < 10 THEN <<d>> ELSE IntToStr(n \div 10) \o <<d>>

\* The length of the maximal run of characters of class cls that starts at
\* the 1-based position i of s (0 when i is past the end).
RunLen(s, i, cls) ==
    IF \A j \in i..Len(s) : s[j] \in cls THEN (IF i > Len(s) THEN 0 ELSE Len(s) - i + 1)
    ELSE (CHOOSE j \in i..Len(s) : s[j] \notin cls /\ \A k \in i..(j - 1) : s[k] \in cls) - i

\* ------------------------------------------------------------------------
\* Python list indexing
\* ------------------------------------------------------------------------

\* lst[i] is defined for -len(lst) <= i < len(lst); otherwise IndexError.
PyIndexOK(i, n) == -n <= i /\ i < n

\* The 0-based position that lst[i] addresses (negative i counts from the end).
PyIndex(i, n) == IF i < 0 THEN i + n ELSE i

\* (x or ""): None and "" both become "".
OrEmpty(x) == IF x = None THEN << >> ELSE x

\* Truth value of an optional str: None and "" are false.
Truthy(x) == x # None /\ x # << >>

\* ------------------------------------------------------------------------
\* Grid Builder (the cell loop of _extract_table_chunks)
\* ------------------------------------------------------------------------

\* grid = [[None] * col_count for _ in range(row_count)], headers = [None] *
\* col_count, header_rows = set(), has_explicit_headers = False.
EmptyBuild(row_count, col_count) ==
    [grid                 |-> [r \in 1..row_count |-> [c \in 1..col_count |-> None]],
     headers              |-> [c \in 1..col_count |-> None],
     header_rows          |-> {},
     has_explicit_headers |-> FALSE,
     raised               |-> FALSE]

\* One iteration of `for cell in cells`.  The bounds test has no lower
\* bound, so a negative index passes it and addresses the list from its end,
\* or raises IndexError when it is below -len.
PlaceCell(b, cell, row_count, col_count) ==
    LET row_idx == cell.rowIndex
        col_idx == cell.columnIndex
        content == strip(cell.content)
    IN IF b.raised THEN b
       ELSE IF ~(row_idx < row_count /\ col_idx < col_count) THEN b
       ELSE IF ~PyIndexOK(row_idx, row_count) \/ ~PyIndexOK(col_idx, col_count)
            THEN [b EXCEPT !.raised = TRUE]
       ELSE LET r == PyIndex(row_idx, row_count) + 1
                c == PyIndex(col_idx, col_count) + 1
                g == [b.grid EXCEPT ![r][c] = content]
            IN IF cell.kind = "columnHeader"
               THEN [b EXCEPT !.grid = g,
                              !.headers[c] = content,
                              !.header_rows = @ \cup {row_idx},
                              !.has_explicit_headers = TRUE]
               ELSE [b EXCEPT !.grid = g]

RECURSIVE PlaceCells(_, _, _, _)
PlaceCells(b, cells, row_count, col_count) ==
    IF cells = << >> THEN b
    ELSE PlaceCells(PlaceCell(b, Head(cells), row_count, col_count),
                    Tail(cells), row_count, col_count)

\* The grid, headers, header_rows and has_explicit_headers of one table.
BuildGrid(table) ==
    PlaceCells(EmptyBuild(table.rowCount, table.columnCount), table.cells,
               table.rowCount, table.columnCount)

\* page_num: the first bounding region's page number, 1 when there is none.
PageNum(table) ==
    IF table.boundingRegions = << >> THEN 1 ELSE table.boundingRegions[1]

\* ------------------------------------------------------------------------
\* Row Collapser
\* ------------------------------------------------------------------------

\* col0_value = (row[0] or "").strip() if row else ""
Col0Value(row) == IF row = << >> THEN << >> ELSE strip(OrEmpty(row[1]))

\* The loop of _should_collapse_rows from the 0-based row row_idx on.
RECURSIVE ScanRows(_, _, _, _, _)
ScanRows(grid, header_rows, row_idx, has_parent_row, has_continuation_row) ==
    IF row_idx >= Len(grid) THEN has_parent_row /\ has_continuation_row
    ELSE IF row_idx \in header_rows
         THEN ScanRows(grid, header_rows, row_idx + 1, has_parent_row, has_continuation_row)
    ELSE IF Col0Value(grid[row_idx + 1]) # << >>
         THEN ScanRows(grid, header_rows, row_idx + 1, TRUE, has_continuation_row)
    ELSE ScanRows(grid, header_rows, row_idx + 1, has_parent_row,
                  has_continuation_row \/ has_parent_row)

_should_collapse_rows(grid, header_rows) ==
    IF Len(grid) < 2 THEN FALSE
    ELSE ScanRows(grid, header_rows, 0, FALSE, FALSE)

\* The values of column col_idx (0-based) that one row contributes.
CellValue(row, col_idx) ==
    IF col_idx < Len(row) THEN strip(OrEmpty(row[col_idx + 1])) ELSE << >>

\* values: the non-empty values of a column, parent first, continuations next.
ColumnValues(parent, continuations, col_idx) ==
    LET all == <<CellValue(parent, col_idx)>> \o
               [k \in 1..Len(continuations) |-> CellValue(continuations[k], col_idx)]
    IN SelectSeq(all, LAMBDA v : v # << >>)

\* _merge_row_group with the continuations' values collected before the
\* parent's.
_merge_row_group_continuations_first(parent, continuations, col_count) ==
    [c \in 1..col_count |->
        LET own    == CellValue(parent, c - 1)
            others == ColumnValues(<< >>, continuations, c - 1)
            values == IF own = << >> THEN others ELSE Append(others, own)
        IN IF Len(values) = 0 THEN << >>
           ELSE IF Len(values) = 1 THEN values[1]
           ELSE join(<<";", " ">>, values)]

_merge_row_group(parent, continuations, col_count) ==
    [c \in 1..col_count |->
        LET values == ColumnValues(parent, continuations, c - 1)
        IN IF Len(values) = 0 THEN << >>
           ELSE IF Len(values) = 1 THEN values[1]
           ELSE join(<<";", " ">>, values)]

\* The loop of _collapse_rows from the 0-based row row_idx on; has_parent is
\* `current_parent is not None`.
RECURSIVE CollapseFrom(_, _, _, _, _, _, _, _)
CollapseFrom(grid, header_rows, col_count, row_idx, collapsed, has_parent, current_parent, current_continuations) ==
    LET flushed == IF has_parent
                   THEN Append(collapsed,
                               _merge_row_group(current_parent, current_continuations, col_count))
                   ELSE collapsed
    IN IF row_idx >= Len(grid) THEN flushed
       ELSE LET row == grid[row_idx + 1]
            IN IF row_idx \in header_rows
               THEN CollapseFrom(grid, header_rows, col_count, row_idx + 1,
                                 Append(flushed, row), FALSE, << >>, << >>)
               ELSE IF Col0Value(row) # << >>
               THEN CollapseFrom(grid, header_rows, col_count, row_idx + 1,
                                 flushed, TRUE, row, << >>)
               ELSE IF has_parent
               THEN CollapseFrom(grid, header_rows, col_count, row_idx + 1,
                                 collapsed, TRUE, current_parent,
                                 Append(current_continuations, row))
               ELSE CollapseFrom(grid, header_rows, col_count, row_idx + 1,
                                 Append(collapsed, row), FALSE, << >>, << >>)

\* CollapseFrom in which a header row is output without flushing the pending
\* group, which stays open.
RECURSIVE CollapseAcrossHeadersFrom(_, _, _, _, _, _, _, _)
CollapseAcrossHeadersFrom(grid, header_rows, col_count, row_idx, collapsed, has_parent, current_parent, current_continuations) ==
    LET flushed == IF has_parent
                   THEN Append(collapsed,
                               _merge_row_group(current_parent, current_continuations, col_count))
                   ELSE collapsed
    IN IF row_idx >= Len(grid) THEN flushed
       ELSE LET row == grid[row_idx + 1]
            IN IF row_idx \in header_rows
               THEN CollapseAcrossHeadersFrom(grid, header_rows, col_count, row_idx + 1,
                                              Append(collapsed, row), has_parent,
                                              current_parent, current_continuations)
               ELSE IF Col0Value(row) # << >>
               THEN CollapseAcrossHeadersFrom(grid, header_rows, col_count, row_idx + 1,
                                              flushed, TRUE, row, << >>)
               ELSE IF has_parent
               THEN CollapseAcrossHeadersFrom(grid, header_rows, col_count, row_idx + 1,
                                              collapsed, TRUE, current_parent,
                                              Append(current_continuations, row))
               ELSE CollapseAcrossHeadersFrom(grid, header_rows, col_count, row_idx + 1,
                                              Append(collapsed, row), FALSE, << >>, << >>)

_collapse_rows_across_headers(grid, header_rows, col_count) ==
    IF grid = << >> THEN grid
    ELSE CollapseAcrossHeadersFrom(grid, header_rows, col_count, 0, << >>, FALSE, << >>, << >>)

_collapse_rows(grid, header_rows, col_count) ==
    IF grid = << >> THEN grid
    ELSE CollapseFrom(grid, header_rows, col_count, 0, << >>, FALSE, << >>, << >>)

\* The collapsing step of _extract_table_chunks: the grid it goes on with.
CollapseStep(grid, header_rows, col_count) ==
    IF _should_collapse_rows(grid, header_rows)
    THEN _collapse_rows(grid, header_rows, col_count)
    ELSE grid

\* ------------------------------------------------------------------------
\* Configuration (EnhancedChunker.__init__; every caller passes these values)
\* ------------------------------------------------------------------------

min_chunk_length == 50

max_chunk_length == 4000

content_hash_length == 700

\* ------------------------------------------------------------------------
\* KV Classifier
\* ------------------------------------------------------------------------

\* sum(1 for c in left_cell if c.isalpha())
AlphaCount(s) == Cardinality({i \in 1..Len(s) : isalpha(s[i])})

\* The test of one row with a non-empty first column.  For a length below 40
\* the float comparison alpha_count > len * 0.3 has the same truth value as
\* 10 * alpha_count > 3 * len.
LabelLike(row) ==
    LET left_cell == strip(row[1])
    IN /\ Len(left_cell) < 40
       /\ WordCount(left_cell) <= 5
       /\ 10 * AlphaCount(left_cell) > 3 * Len(left_cell)

\* _is_kv_table with a threshold of one half instead of 0.6.
_is_kv_table_half(grid, col_count, row_count) ==
    IF col_count # 2 \/ row_count < 2 THEN FALSE
    ELSE LET non_empty   == {r \in 1..Len(grid) : Truthy(grid[r][1])}
             label_like  == {r \in non_empty : LabelLike(grid[r])}
         IN IF Cardinality(non_empty) < 2 THEN FALSE
            ELSE 2 * Cardinality(label_like) >= Cardinality(non_empty)

\* The float comparison label_like_count >= non_empty_rows * 0.6 has the same
\* truth value as 5 * label_like_count >= 3 * non_empty_rows.
_is_kv_table(grid, col_count, row_count) ==
    IF col_count # 2 \/ row_count < 2 THEN FALSE
    ELSE LET non_empty   == {r \in 1..Len(grid) : Truthy(grid[r][1])}
             label_like  == {r \in non_empty : LabelLike(grid[r])}
             non_empty_rows   == Cardinality(non_empty)
             label_like_count == Cardinality(label_like)
         IN IF non_empty_rows < 2 THEN FALSE
            ELSE 5 * label_like_count >= 3 * non_empty_rows

\* ------------------------------------------------------------------------
\* Renderers
\* ------------------------------------------------------------------------

\* "[Source: {filename} | {section} | Page {page}]\n\n"
_build_header(filename, section, page) ==
    <<"[", "S", "o", "u", "r", "c", "e", ":", " ">> \o filename \o
    <<" ", "|", " ">> \o section \o
    <<" ", "|", " ", "P", "a", "g", "e", " ">> \o IntToStr(page) \o
    <<"]", "\n", "\n">>

\* f"Table {table_idx + 1}"
TableSection(table_idx) == <<"T", "a", "b", "l", "e", " ">> \o IntToStr(table_idx + 1)

\* f"Table {table_idx + 1} (Key-Value)"
TableKVSection(table_idx) ==
    TableSection(table_idx) \o
    <<" ", "(", "K", "e", "y", "-", "V", "a", "l", "u", "e", ")">>

\* f"Page {idx + 1}"
PageSection(idx) == <<"P", "a", "g", "e", " ">> \o IntToStr(idx + 1)

DocumentSection == <<"D", "o", "c", "u", "m", "e", "n", "t">>

\* The label and the value of one grid row in key-value mode.
KVLabel(row) == rstrip_colon(strip(OrEmpty(row[1])))

KVValue(row) == strip(OrEmpty(row[2]))

\* KVPairs without the test of the value.
KVPairsLabelOnly(grid) ==
    LET rows == SelectSeq(grid, LAMBDA row : KVLabel(row) # << >>)
    IN [k \in 1..Len(rows) |-> KVLabel(rows[k]) \o <<":", " ">> \o KVValue(rows[k])]

\* kv_pairs: one "label: value" per row that has both.
KVPairs(grid) ==
    LET rows == SelectSeq(grid, LAMBDA row : KVLabel(row) # << >> /\ KVValue(row) # << >>)
    IN [k \in 1..Len(rows) |-> KVLabel(rows[k]) \o <<":", " ">> \o KVValue(rows[k])]

\* " | ".join(cell or "" for cell in row), wrapped as "| ... |"
MarkdownLine(row) ==
    <<"|", " ">> \o
    join(<<" ", "|", " ">>, [c \in 1..Len(row) |-> OrEmpty(row[c])]) \o
    <<" ", "|">>

\* "|" + "|".join(["---"] * n) + "|"
SeparatorLine(n) ==
    <<"|">> \o join(<<"|">>, [c \in 1..n |-> <<"-", "-", "-">>]) \o <<"|">>

\* The 0-based indices of the grid rows that _table_to_markdown renders as
\* body rows, in order.
BodyRows(grid, header_rows, has_explicit_headers) ==
    IF has_explicit_headers
    THEN SelectSeq([r \in 1..Len(grid) |-> r - 1], LAMBDA r : r \notin header_rows)
    ELSE [r \in 1..Len(grid) |-> r - 1]

_table_to_markdown(grid, headers, header_rows, has_explicit_headers, col_count) ==
    IF grid = << >> \/ grid[1] = << >> THEN << >>
    ELSE LET body == BodyRows(grid, header_rows, has_explicit_headers)
             head == IF has_explicit_headers
                     THEN <<MarkdownLine(headers), SeparatorLine(Len(headers))>>
                     ELSE <<MarkdownLine([c \in 1..col_count |->
                                <<"C", "o", "l", "u", "m", "n", " ">> \o IntToStr(c)]),
                            SeparatorLine(col_count)>>
         IN join(<<"\n">>, head \o [k \in 1..Len(body) |-> MarkdownLine(grid[body[k] + 1])])

\* ------------------------------------------------------------------------
\* Text Segmenter
\* ------------------------------------------------------------------------

OpenTag == <<"<", "t", "a", "b", "l", "e", ">">>

CloseTag == <<"<", "/", "t", "a", "b", "l", "e", ">">>

PageBreak ==
    <<"<", "!", "-", "-", " ", "P", "a", "g", "e", "B", "r", "e", "a", "k", " ", "-", "-", ">">>

\* The substitution with the greedy pattern <table>.*</table>: everything
\* from the first <table> through the last </table> behind it is removed.
RemoveHtmlTablesGreedy(s) ==
    LET open == find(s, OpenTag)
    IN IF open = -1 THEN s
       ELSE LET closes == {c \in (open + Len(OpenTag) + 1)..(Len(s) - Len(CloseTag) + 1) :
                              SubSeq(s, c, c + Len(CloseTag) - 1) = CloseTag}
            IN IF closes = {} THEN s
               ELSE LET last == CHOOSE c \in closes : \A d \in closes : d <= c
                    IN SubSeq(s, 1, open) \o SubSeq(s, last + Len(CloseTag), Len(s))

\* re.sub(r'<table>.*?</table>', '', s, flags=re.DOTALL): scanning left to
\* right, each <table> is removed together with everything up to and
\* including the nearest </table> after it; the scan resumes behind it.
RECURSIVE RemoveHtmlTables(_)
RemoveHtmlTables(s) ==
    LET open == find(s, OpenTag)
    IN IF open = -1 THEN s
       ELSE LET rest  == SubSeq(s, open + Len(OpenTag) + 1, Len(s))
                close == find(rest, CloseTag)
            IN IF close = -1 THEN s
               ELSE SubSeq(s, 1, open) \o
                    RemoveHtmlTables(SubSeq(rest, close + Len(CloseTag) + 1, Len(rest)))

\* re.match(r'^\|[\s\-:|]+\|$', stripped)
IsSeparatorLine(stripped) ==
    /\ Len(stripped) >= 3
    /\ stripped[1] = "|"
    /\ stripped[Len(stripped)] = "|"
    /\ \A i \in 2..(Len(stripped) - 1) : stripped[i] \in Whitespace \cup {"-", ":", "|"}

\* stripped.startswith('|') and '|' in stripped[1:] or re.match(...)
IsTableLine(stripped) ==
    \/ /\ Len(stripped) >= 1
       /\ stripped[1] = "|"
       /\ \E i \in 2..Len(stripped) : stripped[i] = "|"
    \/ IsSeparatorLine(stripped)

\* FilterLines in which a blank line does not end the table run.
RECURSIVE FilterLinesAllBlanks(_, _, _, _)
FilterLinesAllBlanks(lines, k, in_table, filtered_lines) ==
    IF k > Len(lines) THEN filtered_lines
    ELSE LET stripped == strip(lines[k])
         IN IF IsTableLine(stripped)
            THEN FilterLinesAllBlanks(lines, k + 1, TRUE, filtered_lines)
            ELSE IF in_table /\ stripped = << >>
            THEN FilterLinesAllBlanks(lines, k + 1, TRUE, filtered_lines)
            ELSE FilterLinesAllBlanks(lines, k + 1, FALSE, Append(filtered_lines, lines[k]))

\* The line loop of _remove_tables_from_content from line k on.
RECURSIVE FilterLines(_, _, _, _)
FilterLines(lines, k, in_table, filtered_lines) ==
    IF k > Len(lines) THEN filtered_lines
    ELSE LET stripped == strip(lines[k])
         IN IF IsTableLine(stripped)
            THEN FilterLines(lines, k + 1, TRUE, filtered_lines)
            ELSE IF in_table /\ stripped = << >>
            THEN FilterLines(lines, k + 1, FALSE, filtered_lines)
            ELSE FilterLines(lines, k + 1, FALSE, Append(filtered_lines, lines[k]))

_remove_tables_from_content(content) ==
    LET clean == RemoveHtmlTables(content)
        lines == split(clean, <<"\n">>)
    IN join(<<"\n">>, FilterLines(lines, 1, FALSE, << >>))

\* An empty dict.
EmptyDict == [k \in {} |-> 0]

\* EnhancedChunk(content, content_type, page_number, section, metadata)
EnhancedChunk(content, content_type, page_number, section, metadata) ==
    [content      |-> content,
     content_type |-> content_type,
     page_number  |-> page_number,
     section      |-> section,
     metadata     |-> metadata]

\* PageChunks numbering the chunks 1, 2, ... in the order they are made.
PageChunksRenumbered(parts, filename) ==
    LET idxs == SelectSeq([k \in 1..Len(parts) |-> k - 1],
                          LAMBDA idx : Len(strip(parts[idx + 1])) >= min_chunk_length)
    IN [k \in 1..Len(idxs) |->
          EnhancedChunk(
              _build_header(filename, PageSection(k - 1), k) \o strip(parts[idxs[k] + 1]),
              "text", k, PageSection(k - 1), EmptyDict)]

\* The chunks of the page-break branch: one per part whose trimmed length
\* reaches min_chunk_length, numbered by the part's position.
PageChunks(parts, filename) ==
    LET idxs == SelectSeq([k \in 1..Len(parts) |-> k - 1],
                          LAMBDA idx : Len(strip(parts[idx + 1])) >= min_chunk_length)
    IN [k \in 1..Len(idxs) |->
          LET idx == idxs[k]
          IN EnhancedChunk(
                 _build_header(filename, PageSection(idx), idx + 1) \o strip(parts[idx + 1]),
                 "text", idx + 1, PageSection(idx), EmptyDict)]

\* _process_one_shot splitting on the markers also when the content is not
\* longer than max_chunk_length.
_process_one_shot_always_split(content, filename, pages) ==
    LET clean_content == _remove_tables_from_content(content)
    IN IF Len(clean_content) < min_chunk_length THEN << >>
       ELSE IF Len(clean_content) <= max_chunk_length /\ find(clean_content, PageBreak) = -1
       THEN <<EnhancedChunk(_build_header(filename, DocumentSection, 1) \o clean_content,
                            "text", 1, DocumentSection, [total_pages |-> pages])>>
       ELSE PageChunks(IF find(clean_content, PageBreak) # -1
                       THEN split(clean_content, PageBreak)
                       ELSE <<clean_content>>,
                       filename)

\* _process_one_shot with `<` for `<=` in the single-chunk test.
_process_one_shot_strict(content, filename, pages) ==
    LET clean_content == _remove_tables_from_content(content)
    IN IF Len(clean_content) < min_chunk_length THEN << >>
       ELSE IF Len(clean_content) < max_chunk_length
       THEN <<EnhancedChunk(_build_header(filename, DocumentSection, 1) \o clean_content,
                            "text", 1, DocumentSection, [total_pages |-> pages])>>
       ELSE PageChunks(IF find(clean_content, PageBreak) # -1
                       THEN split(clean_content, PageBreak)
                       ELSE <<clean_content>>,
                       filename)

_process_one_shot(content, filename, pages) ==
    LET clean_content == _remove_tables_from_content(content)
    IN IF Len(clean_content) < min_chunk_length THEN << >>
       ELSE IF Len(clean_content) <= max_chunk_length
       THEN <<EnhancedChunk(_build_header(filename, DocumentSection, 1) \o clean_content,
                            "text", 1, DocumentSection, [total_pages |-> pages])>>
       ELSE PageChunks(IF find(clean_content, PageBreak) # -1
                       THEN split(clean_content, PageBreak)
                       ELSE <<clean_content>>,
                       filename)

\* ------------------------------------------------------------------------
\* Noise Filter
\* ------------------------------------------------------------------------

\* r'^Page \d+ of \d+$' with re.IGNORECASE on a stripped text.
MatchesPageFooter(t) ==
    LET l  == lower(t)
        d1 == RunLen(l, 6, Digits)
        p  == 6 + d1 + 4
        d2 == RunLen(l, p, Digits)
    IN /\ startswith(l, <<"p", "a", "g", "e", " ">>)
       /\ d1 >= 1
       /\ Len(l) >= p
       /\ SubSeq(l, 6 + d1, p - 1) = <<" ", "o", "f", " ">>
       /\ d2 >= 1
       /\ p + d2 - 1 = Len(l)

\* r'^:selected:$' with re.IGNORECASE.
MatchesSelected(t) == lower(t) = <<":", "s", "e", "l", "e", "c", "t", "e", "d", ":">>

\* r'^\s*$' on a stripped text.
MatchesBlank(t) == t = << >>

\* r'^F\d{3,4}\s+\d+\s+\d+$' with re.IGNORECASE on a stripped text.
MatchesFooterCode(t) ==
    LET l  == lower(t)
        d1 == RunLen(l, 2, Digits)
        w1 == RunLen(l, 2 + d1, Whitespace)
        d2 == RunLen(l, 2 + d1 + w1, Digits)
        w2 == RunLen(l, 2 + d1 + w1 + d2, Whitespace)
        d3 == RunLen(l, 2 + d1 + w1 + d2 + w2, Digits)
    IN /\ Len(l) >= 1
       /\ l[1] = "f"
       /\ d1 \in {3, 4}
       /\ w1 >= 1 /\ d2 >= 1 /\ w2 >= 1 /\ d3 >= 1
       /\ 1 + d1 + w1 + d2 + w2 + d3 = Len(l)

\* any(re.match(pattern, text.strip(), re.IGNORECASE) for pattern in noise_patterns)
_is_noise(text) ==
    LET t == strip(text)
    IN \/ MatchesPageFooter(t)
       \/ MatchesSelected(t)
       \/ MatchesBlank(t)
       \/ MatchesFooterCode(t)

\* ------------------------------------------------------------------------
\* Deduplicator
\* ------------------------------------------------------------------------

\* The text that is hashed: the part behind the first "]\n\n" when the text
\* starts with "[Source:", else the whole text.
HashBody(text) ==
    IF startswith(text, <<"[", "S", "o", "u", "r", "c", "e", ":">>)
    THEN LET header_end == find(text, <<"]", "\n", "\n">>)
         IN IF header_end # -1 THEN SubSeq(text, header_end + 4, Len(text)) ELSE text
    ELSE text

\* The digest of a text.  hashlib.md5 is taken to be injective on the
\* normalized hash input, so the digest is that input itself: two texts have
\* equal digests exactly when their normalized hash inputs are equal.
_get_content_hash(text) ==
    LET body       == HashBody(text)
        hash_input == IF Len(body) <= content_hash_length THEN body
                      ELSE SubSeq(body, 1, content_hash_length)
    IN collapse_whitespace(strip(lower(hash_input)))

\* ------------------------------------------------------------------------
\* Inputs: the tables, contents and file names the calls are explored on
\* ------------------------------------------------------------------------

\* The largest rowCount of the exhaustively enumerated tables.
MaxRows == 3

\* The largest number of tables in a document assembled from the catalogue.
MaxTables == 2

\* The longest header label of the single-column header-only tables.
MaxHeaderLen == 12

\* n copies of the character c.
Rep(c, n) == [i \in 1..n |-> c]

\* One cell record of the analysis result.
Cell(row, col, content, kind) ==
    [rowIndex |-> row, columnIndex |-> col, content |-> content, kind |-> kind]

\* The cells of a table given row by row: rows[r].cells[c] is the text of the
\* cell at (r - 1, c - 1), or None when the analysis result has no such cell;
\* the cells of a row with hdr are columnHeader cells.
RECURSIVE CellsOf(_, _, _)
CellsOf(rows, r, c) ==
    IF r > Len(rows) THEN << >>
    ELSE IF c > Len(rows[r].cells) THEN CellsOf(rows, r + 1, 1)
    ELSE (IF rows[r].cells[c] = None THEN << >>
          ELSE <<Cell(r - 1, c - 1, rows[r].cells[c],
                      IF rows[r].hdr THEN "columnHeader" ELSE "")>>)
         \o CellsOf(rows, r, c + 1)

\* One table record of the analysis result.
Table(row_count, col_count, cells, regions) ==
    [rowCount |-> row_count, columnCount |-> col_count, cells |-> cells,
     boundingRegions |-> regions]

TableOfRows(rows, col_count, regions) ==
    Table(Len(rows), col_count, CellsOf(rows, 1, 1), regions)

Row(cells, hdr) == [cells |-> cells, hdr |-> hdr]

\* Cell texts.
tAb == <<"A", "b">>

t12 == <<"1", "2">>

tx == <<"x">>

\* The label and the value that the enumerated tables put into row r.
LabelAt(r) == <<"A", LowerLetters[r]>>

ValueAt(r) == <<"x">> \o IntToStr(r)

\* Every table of 1..MaxRows rows and one or two columns in which each cell
\* is absent or present (row r holds LabelAt(r) in its first and ValueAt(r)
\* in its second column) and each row is a header row or not.
RowSpecs1(r) == {Row(<<a>>, h) : a \in {None, LabelAt(r)}, h \in BOOLEAN}

RowSpecs2(r) ==
    {Row(<<a, b>>, h) : a \in {None, LabelAt(r)}, b \in {None, ValueAt(r)}, h \in BOOLEAN}

RowSpecs(r, cols) == IF cols = 1 THEN RowSpecs1(r) ELSE RowSpecs2(r)

RowLists(n, cols) ==
    {rows \in [1..n -> UNION {RowSpecs(r, cols) : r \in 1..n}] :
        \A r \in 1..n : rows[r] \in RowSpecs(r, cols)}

GridTables ==
    UNION {{TableOfRows(rows, 1, <<1>>) : rows \in RowLists(n, 1)} \cup
           {TableOfRows(rows, 2, <<1>>) : rows \in RowLists(n, 2)} : n \in 1..MaxRows}

\* Single-column tables that are one header row, with or without one body
\* row: their markdown is 10 + k, or 15 + 2k, characters long.
HeaderTables ==
    {TableOfRows(<<Row(<<Rep("h", k)>>, TRUE)>>, 1, <<1>>) : k \in 1..MaxHeaderLen} \cup
    {TableOfRows(<<Row(<<Rep("h", k)>>, TRUE), Row(<<Rep("h", k)>>, FALSE)>>, 1, << >>) :
        k \in 1..MaxHeaderLen}

\* The worked examples of the specification.
NameGrid ==
    <<Row(<<<<"N", "a", "m", "e">>, <<"J", "o", "h", "n">>>>, FALSE),
      Row(<<None, <<"D", "o", "e">>>>, FALSE),
      Row(<<<<"A", "g", "e">>, <<"3", "0">>>>, FALSE)>>

InvoiceGrid ==
    <<Row(<<<<"I", "n", "v", "o", "i", "c", "e", " ", "N", "o">>, <<"F", "1", "2", "3">>>>, FALSE),
      Row(<<<<"D", "a", "t", "e">>, <<"1", "6", "-", "J", "u", "n", "-", "2", "5">>>>, FALSE)>>

\* A key-value grid whose rows exercise the label and value tests: a label
\* of colons only, a blank value, a padded value, a label with a trailing
\* colon and blank.
ColonGrid ==
    <<Row(<<tAb, tx>>, FALSE),
      Row(<<<<":", ":">>, tx>>, FALSE),
      Row(<<<<"K", "y", ":", ":">>, <<" ">>>>, FALSE),
      Row(<<tAb, <<" ", "v", " ">>>>, FALSE),
      Row(<<<<"A", "b", ":", " ">>, tx>>, FALSE)>>

\* First-column texts around the thresholds of the label test: lengths 39
\* and 40, five and six words, alphabetic shares of 3/10 and 4/10, and a
\* label with surrounding whitespace and a trailing colon.
LabelTexts ==
    {tAb, t12,
     Rep("a", 39), Rep("a", 40),
     <<"a", " ", "b", " ", "c", " ", "d", " ", "e">>,
     <<"a", " ", "b", " ", "c", " ", "d", " ", "e", " ", "f">>,
     <<"a", "b", "c", "1", "2", "3", "4", "5", "6", "7">>,
     <<"a", "b", "c", "d", "1", "2", "3", "4", "5", "6">>,
     <<" ", "K", "e", "y", ":", " ">>}

\* Two-column tables of two rows over LabelTexts, tables of five rows with
\* two or three labels among five, and tables of the same content with one,
\* three and five columns.
LabelTables ==
    {TableOfRows(<<Row(<<a, tx>>, FALSE), Row(<<b, tx>>, FALSE)>>, 2, <<1>>) :
        a \in LabelTexts, b \in LabelTexts} \cup
    {TableOfRows(<<Row(<<tAb, tx>>, FALSE), Row(<<tAb, tx>>, FALSE), Row(<<a, tx>>, FALSE),
                   Row(<<t12, tx>>, FALSE), Row(<<t12, tx>>, FALSE)>>, 2, <<1>>) :
        a \in {tAb, t12}} \cup
    {TableOfRows(<<Row([c \in 1..n |-> tAb], FALSE), Row([c \in 1..n |-> tAb], FALSE)>>,
                 n, <<1>>) : n \in {1, 3, 5}} \cup
    {TableOfRows(NameGrid, 2, <<1>>), TableOfRows(InvoiceGrid, 2, <<1>>),
     TableOfRows(ColonGrid, 2, <<1>>)}

\* A full two-by-two table plus one more cell whose indices range over
\* in-range, too large and negative values; the extra cell is the last or
\* the first of the cell list, and a table with rowCount 0.
StrayBase == <<Row(<<tAb, tx>>, FALSE), Row(<<t12, tx>>, FALSE)>>

StrayCells ==
    {Cell(r, c, <<"z">>, k) : r \in -3..3, c \in -3..3, k \in {"", "columnHeader"}}

StrayTables ==
    {Table(2, 2, CellsOf(StrayBase, 1, 1) \o <<cell>>, <<1>>) : cell \in StrayCells} \cup
    {Table(2, 2, <<cell>> \o CellsOf(StrayBase, 1, 1), <<1>>) : cell \in StrayCells} \cup
    {Table(0, 2, <<cell>>, <<1>>) : cell \in StrayCells}

\* The tables that multi-table documents are assembled from: two regular
\* tables that differ only in letter case, the first of them again on
\* page 2, two key-value tables (one renders a single pair) and a table
\* without cells.
CatalogueTables ==
    {TableOfRows(<<Row(<<tAb>>, FALSE), Row(<<t12>>, FALSE)>>, 1, <<1>>),
     TableOfRows(<<Row(<<tAb>>, FALSE), Row(<<t12>>, FALSE)>>, 1, <<2>>),
     TableOfRows(<<Row(<<<<"A", "B">>>>, FALSE), Row(<<t12>>, FALSE)>>, 1, <<1>>),
     TableOfRows(<<Row(<<tAb, tx>>, FALSE), Row(<<tAb, tx>>, FALSE)>>, 2, <<1>>),
     TableOfRows(<<Row(<<tAb, tx>>, FALSE), Row(<<tAb, None>>, FALSE)>>, 2, <<1>>),
     Table(1, 1, << >>, <<1>>)}

TableLists == UNION {[1..n -> CatalogueTables] : n \in 0..MaxTables}

\* File names without the characters that end a contextual header: one
\* character, and the default name.
PlainFileNames ==
    {<<"d">>, <<"d", "o", "c", "u", "m", "e", "n", "t">>}

\* The file names: plain ones, and one that holds the characters that end a
\* contextual header.
FileNames == PlainFileNames \cup {<<"a", "]", "\n", "\n", "b">>}

\* A "Page N of M" footer padded with blanks to min_chunk_length characters.
FooterContent == <<"P", "a", "g", "e", " ", "3", " ", "o", "f", " ", "1", "0">> \o Rep(" ", min_chunk_length - 12)

\* Text with an HTML table block and a markdown pipe table inside.
MixedContent ==
    Rep("w", 30) \o <<"\n">> \o OpenTag \o <<"c", "\n", "d">> \o CloseTag \o <<"\n">> \o
    <<"|", " ", "a", " ", "|", " ", "b", " ", "|", "\n", "|", "-", "-", "-", "|", "-", "-", "-", "|", "\n", "|", " ", "1", " ", "|", " ", "2", " ", "|", "\n", "\n">> \o Rep("v", 30)

\* A markdown pipe table of three lines, and a text of min_chunk_length or
\* more characters that is nothing but such tables.
PipeTable ==
    <<"|", " ", "a", " ", "|", " ", "b", " ", "|", "\n", "|", "-", "-", "-", "|", "-", "-", "-", "|", "\n", "|", " ", "1", " ", "|", " ", "2", " ", "|", "\n">>

TableOnlyContent == PipeTable \o PipeTable

\* Text whose lines exercise the line loop: a blank line that follows no
\* table line, an indented table line, a separator line, a whitespace-only
\* line and a second blank line after a table run, lines with a single
\* pipe, a line with pipes that does not start with one, a table line
\* without a closing pipe followed by text, and two blank lines after a
\* table line.
LinesContent ==
    <<"i", "n", "t", "r", "o", " ", "w", "o", "r", "d", "s", " ", "h", "e", "r", "e", "\n",
      "\n", " ", " ", "|", " ", "a", " ", "|", " ", "b", " ", "|", "\n", "|", "-", "-", "-",
      "|", ":", "-", ":", "|", "\n", " ", "\t", "\n", "\n", "|", " ", "n", "o", "t", "e", "\n",
      "|", "\n", "a", " ", "|", " ", "b", " ", "|", " ", "c", "\n", "|", " ", "x", " ", "|",
      " ", "y", "\n", "t", "a", "i", "l", " ", "t", "e", "x", "t", "\n", "\n", "|", " ", "1",
      " ", "|", " ", "2", " ", "|", "\n", "\n", "\n">> \o
    Rep("v", 30)

\* What _remove_tables_from_content returns for LinesContent.
LinesCleaned ==
    <<"i", "n", "t", "r", "o", " ", "w", "o", "r", "d", "s", " ", "h", "e", "r", "e", "\n",
      "\n", "\n", "|", " ", "n", "o", "t", "e", "\n", "|", "\n", "a", " ", "|", " ", "b", " ",
      "|", " ", "c", "\n", "t", "a", "i", "l", " ", "t", "e", "x", "t", "\n", "\n", "\n">> \o
    Rep("v", 30)

\* Texts with literal table tags: two separate blocks with a line of text
\* between them, a block opened inside another, and a closing tag that
\* precedes the only opening tag.
MidText == <<"m", "i", "d", " ", "t", "e", "x", "t">>

TwoTablesContent ==
    Rep("w", 30) \o <<"\n">> \o OpenTag \o <<"c", "\n", "d">> \o CloseTag \o <<"\n">> \o
    MidText \o <<"\n">> \o OpenTag \o <<"e">> \o CloseTag \o <<"\n">> \o Rep("v", 30)

NestedTableContent ==
    Rep("w", 30) \o OpenTag \o <<"a">> \o OpenTag \o <<"b">> \o CloseTag \o <<"c">> \o
    CloseTag \o Rep("v", 30)

UnclosedTableContent ==
    Rep("w", 30) \o CloseTag \o <<"x">> \o OpenTag \o <<"y">> \o Rep("v", 30)

\* Contents below max_chunk_length.
ShortContents ==
    {<< >>, Rep("w", min_chunk_length - 1), Rep("w", min_chunk_length),
     FooterContent, MixedContent, TableOnlyContent, LinesContent,
     TwoTablesContent, NestedTableContent, UnclosedTableContent}

\* The contents that are combined with every list of catalogue tables.
CatalogueContents == {<< >>, Rep("w", min_chunk_length), FooterContent}

\* The lengths of the two segments of a content A<!-- PageBreak -->B: just
\* above min_chunk_length, and such that the whole is max_chunk_length long
\* or one more.
SegmentLens ==
    {min_chunk_length + 1,
     (max_chunk_length - Len(PageBreak)) \div 2,
     (max_chunk_length - Len(PageBreak)) \div 2 + 1}

\* A<!-- PageBreak -->B with A and B runs of one letter, bare or wrapped in
\* whitespace; the two segments are equal text when both use the same letter.
FirstSegments ==
    {Rep("a", n) : n \in SegmentLens} \cup
    {<<" ">> \o Rep("a", min_chunk_length + 1) \o <<"\n">>}

SecondSegments ==
    {Rep(c, n) : c \in {"a", "b"}, n \in SegmentLens} \cup
    {<<"\n">> \o Rep("b", (max_chunk_length - Len(PageBreak)) \div 2 + 1) \o <<" ">>}

PagedContents == {A \o PageBreak \o B : A \in FirstSegments, B \in SecondSegments}

\* Contents above max_chunk_length in which a segment is too short to become
\* a chunk (the first, a blank one in the middle, an empty last one), and a
\* content above max_chunk_length without any marker.
GappedContents ==
    {Rep("a", 10) \o PageBreak \o Rep("b", max_chunk_length),
     Rep("a", max_chunk_length \div 2) \o PageBreak \o Rep(" ", min_chunk_length + 10)
         \o PageBreak \o Rep("c", max_chunk_length \div 2),
     Rep("a", max_chunk_length) \o PageBreak,
     Rep("w", max_chunk_length + 1)}

\* The calls explored: every single table with no text, and every list of
\* catalogue tables with every short content and file name, and every paged
\* content with no table.
Document(tables, content, pages) ==
    [tables |-> tables, content |-> content, pages |-> pages]

Calls ==
    {[raw_ocr |-> Document(<<t>>, << >>, 1), filename |-> f] :
        t \in GridTables \cup HeaderTables \cup LabelTables \cup StrayTables,
        f \in {<<"d">>}} \cup
    {[raw_ocr |-> Document(ts, c, 2), filename |-> f] :
        ts \in TableLists, c \in CatalogueContents, f \in FileNames} \cup
    {[raw_ocr |-> Document(<< >>, c, 2), filename |-> f] :
        c \in ShortContents, f \in FileNames} \cup
    {[raw_ocr |-> Document(<< >>, c, 2), filename |-> f] :
        c \in PagedContents \cup GappedContents, f \in PlainFileNames}

\* ------------------------------------------------------------------------
\* State
\* ------------------------------------------------------------------------

VARIABLES
    raw_ocr,               \* argument of extract_chunks: tables, content, pages
    filename,              \* argument of extract_chunks
    pc,                    \* position of the call
    seen_hashes,           \* self.seen_hashes
    chunks,                \* chunks of extract_chunks: table chunks, then text chunks
    table_idx,             \* loop index of _extract_table_chunks
    grid,                  \* locals of the current table of _extract_table_chunks
    headers,
    header_rows,
    has_explicit_headers,
    row_count,
    is_kv_table,
    table_markdown,
    chunk_idx,             \* number of chunks _filter_chunks has gone through
    filtered,              \* filtered of _filter_chunks
    final_chunks,          \* the list extract_chunks returns
    earlier_hashes,        \* self.seen_hashes as the previous call on the instance left it
    raw_ocr2,              \* a call of extract_chunks on a second instance: its arguments,
    filename2,
    pc2,                   \* its position,
    seen_hashes2,          \* the second instance's self.seen_hashes,
    chunks2,               \* and the call's chunks, loop position, filtered and result
    chunk_idx2,
    filtered2,
    final_chunks2,
    max_attempts,          \* argument of analyze_layout_rest
    attempt,               \* attempt of the polling loop
    status,                \* what the last poll request brought
    polls,                 \* number of poll requests made
    poll_pc                \* position of analyze_layout_rest

\* The second instance and its call.
second_vars ==
    <<raw_ocr2, filename2, pc2, seen_hashes2, chunks2, chunk_idx2, filtered2, final_chunks2>>

\* analyze_layout_rest.
poll_vars == <<max_attempts, attempt, status, polls, poll_pc>>

\* What a step of extract_chunks on the first instance leaves alone.
other_vars == <<earlier_hashes, second_vars, poll_vars>>

vars ==
    <<raw_ocr, filename, pc, seen_hashes, chunks, table_idx, grid, headers,
      header_rows, has_explicit_headers, row_count, is_kv_table, table_markdown,
      chunk_idx, filtered, final_chunks, other_vars>>

table_locals ==
    <<grid, headers, header_rows, has_explicit_headers, row_count, is_kv_table,
      table_markdown>>

tables == raw_ocr.tables

\* The state after EnhancedChunker() and before extract_chunks is entered:
\* self.seen_hashes = set(), and the locals of the call not yet bound.
NewInstance ==
    /\ pc = "idle"
    /\ seen_hashes = {}
    /\ chunks = << >>
    /\ table_idx = 0
    /\ grid = << >>
    /\ headers = << >>
    /\ header_rows = {}
    /\ has_explicit_headers = FALSE
    /\ row_count = 0
    /\ is_kv_table = FALSE
    /\ table_markdown = << >>
    /\ chunk_idx = 0
    /\ filtered = << >>
    /\ final_chunks = << >>
    /\ earlier_hashes = {}

\* A second instance after EnhancedChunker(), with the call it will get.
SecondInstance(call) ==
    /\ raw_ocr2 = call.raw_ocr
    /\ filename2 = call.filename
    /\ pc2 = "idle"
    /\ seen_hashes2 = {}
    /\ chunks2 = << >>
    /\ chunk_idx2 = 0
    /\ filtered2 = << >>
    /\ final_chunks2 = << >>

\* No second instance is used: it is never called.
NoSecondCall ==
    SecondInstance([raw_ocr |-> Document(<< >>, << >>, 0), filename |-> <<"d">>])

MAX_POLL_ATTEMPTS == 60

\* analyze_layout_rest is not called.
NoPolling ==
    /\ max_attempts = MAX_POLL_ATTEMPTS
    /\ attempt = 0
    /\ status = "none"
    /\ polls = 0
    /\ poll_pc = "idle"

\* One call of extract_chunks on a new instance.
Init ==
    /\ \E call \in Calls : raw_ocr = call.raw_ocr /\ filename = call.filename
    /\ NewInstance
    /\ NoSecondCall
    /\ NoPolling

\* ------------------------------------------------------------------------
\* extract_chunks, step by step
\* ------------------------------------------------------------------------

\* Begin without `self.seen_hashes.clear()`.
BeginKeepsSeen ==
    /\ pc = "idle"
    /\ pc' = "tables"
    /\ chunks' = << >>
    /\ table_idx' = 0
    /\ UNCHANGED <<raw_ocr, filename, seen_hashes, table_locals, chunk_idx, filtered,
                   final_chunks>>
    /\ UNCHANGED other_vars

\* extract_chunks is entered: chunks = [], self.seen_hashes.clear().
Begin ==
    /\ pc = "idle"
    /\ pc' = "tables"
    /\ chunks' = << >>
    /\ seen_hashes' = {}
    /\ table_idx' = 0
    /\ UNCHANGED <<raw_ocr, filename, table_locals, chunk_idx, filtered, final_chunks>>
    /\ UNCHANGED other_vars

\* A table without cells: `if not cells: continue`.
SkipTable ==
    /\ pc = "tables"
    /\ table_idx < Len(tables)
    /\ tables[table_idx + 1].cells = << >>
    /\ table_idx' = table_idx + 1
    /\ UNCHANGED <<raw_ocr, filename, pc, seen_hashes, chunks, table_locals,
                   chunk_idx, filtered, final_chunks>>
    /\ UNCHANGED other_vars

\* The grid of the next table is built from its cells.
BuildTable ==
    /\ pc = "tables"
    /\ table_idx < Len(tables)
    /\ tables[table_idx + 1].cells # << >>
    /\ LET b == BuildGrid(tables[table_idx + 1])
       IN /\ ~b.raised
          /\ grid' = b.grid
          /\ headers' = b.headers
          /\ header_rows' = b.header_rows
          /\ has_explicit_headers' = b.has_explicit_headers
    /\ row_count' = tables[table_idx + 1].rowCount
    /\ pc' = "collapse"
    /\ UNCHANGED <<raw_ocr, filename, seen_hashes, chunks, table_idx, is_kv_table,
                   table_markdown, chunk_idx, filtered, final_chunks>>
    /\ UNCHANGED other_vars

\* A cell index below -len raises IndexError in the cell loop; nothing
\* catches it, so extract_chunks ends with the exception.
BuildTableRaises ==
    /\ pc = "tables"
    /\ table_idx < Len(tables)
    /\ tables[table_idx + 1].cells # << >>
    /\ BuildGrid(tables[table_idx + 1]).raised
    /\ pc' = "raised"
    /\ UNCHANGED <<raw_ocr, filename, seen_hashes, chunks, table_idx, table_locals,
                   chunk_idx, filtered, final_chunks>>
    /\ UNCHANGED other_vars

\* CollapseRows without `row_count = len(grid)` after collapsing.
CollapseRowsKeepsCount ==
    /\ pc = "collapse"
    /\ grid' = CollapseStep(grid, header_rows, tables[table_idx + 1].columnCount)
    /\ row_count' = row_count
    /\ is_kv_table' = _is_kv_table(grid', tables[table_idx + 1].columnCount, row_count')
    /\ pc' = "render"
    /\ UNCHANGED <<raw_ocr, filename, seen_hashes, chunks, table_idx, headers,
                   header_rows, has_explicit_headers, table_markdown, chunk_idx,
                   filtered, final_chunks>>
    /\ UNCHANGED other_vars

\* Row collapsing, and the classification that follows it.
CollapseRows ==
    /\ pc = "collapse"
    /\ grid' = CollapseStep(grid, header_rows, tables[table_idx + 1].columnCount)
    /\ row_count' = IF _should_collapse_rows(grid, header_rows) THEN Len(grid') ELSE row_count
    /\ is_kv_table' = _is_kv_table(grid', tables[table_idx + 1].columnCount, row_count')
    /\ pc' = "render"
    /\ UNCHANGED <<raw_ocr, filename, seen_hashes, chunks, table_idx, headers,
                   header_rows, has_explicit_headers, table_markdown, chunk_idx,
                   filtered, final_chunks>>
    /\ UNCHANGED other_vars

\* Key-value mode: one table_kv chunk when there is at least one pair.
RenderKV ==
    /\ pc = "render"
    /\ is_kv_table
    /\ LET kv_pairs == KVPairs(grid)
           page_num == PageNum(tables[table_idx + 1])
       IN chunks' =
            IF kv_pairs # << >>
            THEN Append(chunks, EnhancedChunk(
                     _build_header(filename, TableKVSection(table_idx), page_num)
                         \o join(<<"\n">>, kv_pairs),
                     "table_kv", page_num, TableSection(table_idx),
                     [table_index  |-> table_idx,
                      table_type   |-> "key_value",
                      row_count    |-> row_count,
                      column_count |-> tables[table_idx + 1].columnCount]))
            ELSE chunks
    /\ table_idx' = table_idx + 1
    /\ pc' = "tables"
    /\ UNCHANGED <<raw_ocr, filename, seen_hashes, table_locals, chunk_idx, filtered,
                   final_chunks>>
    /\ UNCHANGED other_vars

\* KeepsMarkdown with `>=` for `>`.
KeepsMarkdownFrom20(markdown) == markdown # << >> /\ Len(markdown) >= 20

\* `if table_markdown and len(table_markdown) > 20`
KeepsMarkdown(markdown) == markdown # << >> /\ Len(markdown) > 20

\* Regular mode: one table chunk when the markdown is longer than 20.
RenderTable ==
    /\ pc = "render"
    /\ ~is_kv_table
    /\ table_markdown' = _table_to_markdown(grid, headers, header_rows, has_explicit_headers,
                                            tables[table_idx + 1].columnCount)
    /\ LET page_num == PageNum(tables[table_idx + 1])
       IN chunks' =
            IF KeepsMarkdown(table_markdown')
            THEN Append(chunks, EnhancedChunk(
                     _build_header(filename, TableSection(table_idx), page_num)
                         \o table_markdown',
                     "table", page_num, TableSection(table_idx),
                     [table_index  |-> table_idx,
                      row_count    |-> row_count,
                      column_count |-> tables[table_idx + 1].columnCount,
                      headers      |-> IF has_explicit_headers
                                       THEN SelectSeq(headers, Truthy)
                                       ELSE << >>]))
            ELSE chunks
    /\ table_idx' = table_idx + 1
    /\ pc' = "tables"
    /\ UNCHANGED <<raw_ocr, filename, seen_hashes, grid, headers, header_rows,
                   has_explicit_headers, row_count, is_kv_table, chunk_idx, filtered,
                   final_chunks>>
    /\ UNCHANGED other_vars

\* All tables done: the text chunks are appended behind the table chunks.
ProcessText ==
    /\ pc = "tables"
    /\ table_idx = Len(tables)
    /\ chunks' = chunks \o _process_one_shot(raw_ocr.content, filename, raw_ocr.pages)
    /\ chunk_idx' = 0
    /\ filtered' = << >>
    /\ pc' = "filter"
    /\ UNCHANGED <<raw_ocr, filename, seen_hashes, table_idx, table_locals, final_chunks>>
    /\ UNCHANGED other_vars

\* FilterStep recording the digest before the length and noise checks.
FilterStepAddsFirst(chunk, seen, kept) ==
    LET content_hash == _get_content_hash(chunk.content)
    IN IF Len(chunk.content) < min_chunk_length
       THEN [seen |-> seen \cup {content_hash}, kept |-> kept]
       ELSE IF _is_noise(chunk.content)
       THEN [seen |-> seen \cup {content_hash}, kept |-> kept]
       ELSE IF content_hash \in seen THEN [seen |-> seen, kept |-> kept]
       ELSE [seen |-> seen \cup {content_hash}, kept |-> Append(kept, chunk)]

\* FilterStep without `self.seen_hashes.add(content_hash)`.
FilterStepNoAdd(chunk, seen, kept) ==
    LET content_hash == _get_content_hash(chunk.content)
    IN IF Len(chunk.content) < min_chunk_length THEN [seen |-> seen, kept |-> kept]
       ELSE IF _is_noise(chunk.content) THEN [seen |-> seen, kept |-> kept]
       ELSE IF content_hash \in seen THEN [seen |-> seen, kept |-> kept]
       ELSE [seen |-> seen, kept |-> Append(kept, chunk)]

\* The body of the loop of _filter_chunks for one chunk: the seen digests
\* and the filtered list after it.
FilterStep(chunk, seen, kept) ==
    LET content_hash == _get_content_hash(chunk.content)
    IN IF Len(chunk.content) < min_chunk_length THEN [seen |-> seen, kept |-> kept]
       ELSE IF _is_noise(chunk.content) THEN [seen |-> seen, kept |-> kept]
       ELSE IF content_hash \in seen THEN [seen |-> seen, kept |-> kept]
       ELSE [seen |-> seen \cup {content_hash}, kept |-> Append(kept, chunk)]

\* One iteration of the loop of _filter_chunks.
FilterChunk ==
    /\ pc = "filter"
    /\ chunk_idx < Len(chunks)
    /\ LET after == FilterStep(chunks[chunk_idx + 1], seen_hashes, filtered)
       IN /\ seen_hashes' = after.seen
          /\ filtered' = after.kept
    /\ chunk_idx' = chunk_idx + 1
    /\ UNCHANGED <<raw_ocr, filename, pc, chunks, table_idx, table_locals, final_chunks>>
    /\ UNCHANGED other_vars

\* _filter_chunks returns and extract_chunks returns its list.
Return ==
    /\ pc = "filter"
    /\ chunk_idx = Len(chunks)
    /\ final_chunks' = filtered
    /\ pc' = "done"
    /\ UNCHANGED <<raw_ocr, filename, seen_hashes, chunks, table_idx, table_locals,
                   chunk_idx, filtered>>
    /\ UNCHANGED other_vars

Next ==
    \/ Begin
    \/ SkipTable
    \/ BuildTable
    \/ BuildTableRaises
    \/ CollapseRows
    \/ RenderKV
    \/ RenderTable
    \/ ProcessText
    \/ FilterChunk
    \/ Return

Spec == Init /\ [][Next]_vars

\* ------------------------------------------------------------------------
\* extract_chunks as a function of its arguments and of self.seen_hashes
\* ------------------------------------------------------------------------

\* The chunks that one pass of the table loop appends for the table at
\* index t_idx: none or one.
TableChunk(table, t_idx, fname) ==
    LET col_count == table.columnCount
        b         == BuildGrid(table)
        g         == CollapseStep(b.grid, b.header_rows, col_count)
        rows      == IF _should_collapse_rows(b.grid, b.header_rows)
                     THEN Len(g) ELSE table.rowCount
        page_num  == PageNum(table)
        kv_pairs  == KVPairs(g)
        markdown  == _table_to_markdown(g, b.headers, b.header_rows,
                                        b.has_explicit_headers, col_count)
    IN IF table.cells = << >> THEN << >>
       ELSE IF _is_kv_table(g, col_count, rows)
       THEN (IF kv_pairs # << >>
             THEN <<EnhancedChunk(
                      _build_header(fname, TableKVSection(t_idx), page_num)
                          \o join(<<"\n">>, kv_pairs),
                      "table_kv", page_num, TableSection(t_idx),
                      [table_index  |-> t_idx,
                       table_type   |-> "key_value",
                       row_count    |-> rows,
                       column_count |-> col_count])>>
             ELSE << >>)
       ELSE IF KeepsMarkdown(markdown)
       THEN <<EnhancedChunk(
                 _build_header(fname, TableSection(t_idx), page_num) \o markdown,
                 "table", page_num, TableSection(t_idx),
                 [table_index  |-> t_idx,
                  row_count    |-> rows,
                  column_count |-> col_count,
                  headers      |-> IF b.has_explicit_headers
                                   THEN SelectSeq(b.headers, Truthy)
                                   ELSE << >>])>>
       ELSE << >>

\* The cell loop of the table raises IndexError.
TableRaises(table) == table.cells # << >> /\ BuildGrid(table).raised

\* The chunks of the tables from index t_idx on, in table order.
RECURSIVE TableChunksFrom(_, _, _)
TableChunksFrom(table_list, fname, t_idx) ==
    IF t_idx >= Len(table_list) THEN << >>
    ELSE TableChunk(table_list[t_idx + 1], t_idx, fname)
         \o TableChunksFrom(table_list, fname, t_idx + 1)

_extract_table_chunks(table_list, fname) == TableChunksFrom(table_list, fname, 0)

\* The loop of _filter_chunks from the 0-based position k on: the seen
\* digests and the filtered list at its end.
RECURSIVE FilterFrom(_, _, _, _)
FilterFrom(chunk_list, k, seen, kept) ==
    IF k >= Len(chunk_list) THEN [seen |-> seen, kept |-> kept]
    ELSE LET after == FilterStep(chunk_list[k + 1], seen, kept)
         IN FilterFrom(chunk_list, k + 1, after.seen, after.kept)

_filter_chunks(chunk_list, seen) == FilterFrom(chunk_list, 0, seen, << >>)

\* The chunks that a call creates before filtering, tables first.
CreatedChunks(raw, fname) ==
    _extract_table_chunks(raw.tables, fname)
        \o _process_one_shot(raw.content, fname, raw.pages)

\* The call ends with the IndexError of a table.
CallRaises(raw) == \E i \in DOMAIN raw.tables : TableRaises(raw.tables[i])

\* The list that extract_chunks(raw, fname) returns on an instance whose
\* self.seen_hashes is empty when the filter starts, as on a new instance.
extract_chunks(raw, fname) == _filter_chunks(CreatedChunks(raw, fname), {}).kept

\* ------------------------------------------------------------------------
\* Several calls on one instance
\* ------------------------------------------------------------------------

\* The calls made on a reused instance: every list of catalogue tables
\* without text and with a text, and a table whose cell loop raises.
RaisingTable == Table(0, 2, <<Cell(-3, -3, <<"z">>, "")>>, <<1>>)

ReuseCalls ==
    {[raw_ocr |-> Document(ts, c, 2), filename |-> <<"d">>] :
        ts \in TableLists, c \in {<< >>, Rep("w", min_chunk_length)}} \cup
    {[raw_ocr |-> Document(<<RaisingTable>>, << >>, 1), filename |-> <<"d">>]}

\* The caller calls extract_chunks again on the same instance, after the
\* previous call returned or raised: the locals of the previous call are
\* gone, self.seen_hashes is what that call left.
NextCall ==
    /\ pc \in {"done", "raised"}
    /\ \E call \in ReuseCalls : raw_ocr' = call.raw_ocr /\ filename' = call.filename
    /\ pc' = "idle"
    /\ earlier_hashes' = seen_hashes
    /\ chunks' = << >>
    /\ table_idx' = 0
    /\ grid' = << >>
    /\ headers' = << >>
    /\ header_rows' = {}
    /\ has_explicit_headers' = FALSE
    /\ row_count' = 0
    /\ is_kv_table' = FALSE
    /\ table_markdown' = << >>
    /\ chunk_idx' = 0
    /\ filtered' = << >>
    /\ final_chunks' = << >>
    /\ UNCHANGED <<seen_hashes, second_vars, poll_vars>>

InitReuse ==
    /\ \E call \in ReuseCalls : raw_ocr = call.raw_ocr /\ filename = call.filename
    /\ NewInstance
    /\ NoSecondCall
    /\ NoPolling

NextReuse == Next \/ NextCall

SpecReuse == InitReuse /\ [][NextReuse]_vars

\* ------------------------------------------------------------------------
\* Two concurrent calls, each on its own instance
\* ------------------------------------------------------------------------

\* The first instance and its call.
first_vars ==
    <<raw_ocr, filename, pc, seen_hashes, chunks, table_idx, table_locals, chunk_idx,
      filtered, final_chunks, earlier_hashes>>

\* The calls of the second instance: one regular table, the same table
\* twice (on pages 1 and 2), a key-value table with a text, a text alone,
\* and a table whose cell loop raises.
SecondCalls ==
    {[raw_ocr |-> Document(ts, c, 2), filename |-> <<"d">>] :
        ts \in {<<TableOfRows(<<Row(<<tAb>>, FALSE), Row(<<t12>>, FALSE)>>, 1, <<1>>)>>,
                <<TableOfRows(<<Row(<<tAb>>, FALSE), Row(<<t12>>, FALSE)>>, 1, <<1>>),
                  TableOfRows(<<Row(<<tAb>>, FALSE), Row(<<t12>>, FALSE)>>, 1, <<2>>)>>,
                <<TableOfRows(<<Row(<<tAb, tx>>, FALSE), Row(<<tAb, tx>>, FALSE)>>, 2, <<1>>)>>,
                << >>,
                <<RaisingTable>>},
        c \in {Rep("w", min_chunk_length)}}

\* Begin2 where self.seen_hashes is one set shared by all instances, so
\* that clear() empties it for the first instance too.
Begin2ClearsShared ==
    /\ pc2 = "idle"
    /\ pc2' = "extract"
    /\ chunks2' = << >>
    /\ seen_hashes2' = {}
    /\ seen_hashes' = {}
    /\ UNCHANGED <<raw_ocr2, filename2, chunk_idx2, filtered2, final_chunks2>>
    /\ UNCHANGED <<raw_ocr, filename, pc, chunks, table_idx, table_locals, chunk_idx,
                   filtered, final_chunks, earlier_hashes>>
    /\ UNCHANGED poll_vars

\* The second call is entered: chunks = [], self.seen_hashes.clear() on its
\* own instance.
Begin2 ==
    /\ pc2 = "idle"
    /\ pc2' = "extract"
    /\ chunks2' = << >>
    /\ seen_hashes2' = {}
    /\ UNCHANGED <<raw_ocr2, filename2, chunk_idx2, filtered2, final_chunks2>>
    /\ UNCHANGED <<first_vars, poll_vars>>

\* The second call creates its chunks: table extraction and text
\* segmentation work on the arguments and on locals of the call only.
Extract2 ==
    /\ pc2 = "extract"
    /\ ~CallRaises(raw_ocr2)
    /\ chunks2' = CreatedChunks(raw_ocr2, filename2)
    /\ chunk_idx2' = 0
    /\ filtered2' = << >>
    /\ pc2' = "filter"
    /\ UNCHANGED <<raw_ocr2, filename2, seen_hashes2, final_chunks2>>
    /\ UNCHANGED <<first_vars, poll_vars>>

\* The second call ends with the IndexError of a table.
Extract2Raises ==
    /\ pc2 = "extract"
    /\ CallRaises(raw_ocr2)
    /\ pc2' = "raised"
    /\ UNCHANGED <<raw_ocr2, filename2, seen_hashes2, chunks2, chunk_idx2, filtered2,
                   final_chunks2>>
    /\ UNCHANGED <<first_vars, poll_vars>>

\* One iteration of the loop of _filter_chunks of the second call.
FilterChunk2 ==
    /\ pc2 = "filter"
    /\ chunk_idx2 < Len(chunks2)
    /\ LET after == FilterStep(chunks2[chunk_idx2 + 1], seen_hashes2, filtered2)
       IN /\ seen_hashes2' = after.seen
          /\ filtered2' = after.kept
    /\ chunk_idx2' = chunk_idx2 + 1
    /\ UNCHANGED <<raw_ocr2, filename2, pc2, chunks2, final_chunks2>>
    /\ UNCHANGED <<first_vars, poll_vars>>

\* The second call returns its list.
Return2 ==
    /\ pc2 = "filter"
    /\ chunk_idx2 = Len(chunks2)
    /\ final_chunks2' = filtered2
    /\ pc2' = "done"
    /\ UNCHANGED <<raw_ocr2, filename2, seen_hashes2, chunks2, chunk_idx2, filtered2>>
    /\ UNCHANGED <<first_vars, poll_vars>>

InitConcurrent ==
    /\ \E call \in ReuseCalls : raw_ocr = call.raw_ocr /\ filename = call.filename
    /\ NewInstance
    /\ \E call \in SecondCalls : SecondInstance(call)
    /\ NoPolling

NextConcurrent ==
    \/ Next
    \/ Begin2
    \/ Extract2
    \/ Extract2Raises
    \/ FilterChunk2
    \/ Return2

SpecConcurrent == InitConcurrent /\ [][NextConcurrent]_vars

\* ------------------------------------------------------------------------
\* Properties
\* ------------------------------------------------------------------------

\* The table whose grid is being collapsed or rendered.
CurrentTable == tables[table_idx + 1]

\* The table loop has just finished a table that has cells: the table locals
\* are those of tables[table_idx].
JustRendered == pc = "tables" /\ table_idx >= 1 /\ tables[table_idx].cells # << >>

FinishedTable == tables[table_idx]

\* Every cell of the table lies inside 0..rowCount-1 x 0..columnCount-1.
CellsInRange(table) ==
    \A k \in DOMAIN table.cells :
        /\ table.cells[k].rowIndex \in 0..(table.rowCount - 1)
        /\ table.cells[k].columnIndex \in 0..(table.columnCount - 1)

\* The rows of a table that hold a columnHeader cell.
HeaderCellRows(table) ==
    {table.cells[k].rowIndex : k \in {j \in DOMAIN table.cells :
                                          table.cells[j].kind = "columnHeader"}}

\* Row i (0-based) of the uncollapsed grid g0 has an empty first column.
EmptyFirst(g0, i) == Col0Value(g0[i + 1]) = << >>

\* Row i is a parent: a non-header row with a non-empty first column.
IsParent(g0, hr, i) == i \notin hr /\ ~EmptyFirst(g0, i)

\* Row j is a continuation of the parent row i: every row from i + 1 to j
\* is a non-header row with an empty first column.
ContinuationOf(g0, hr, i, j) ==
    j > i /\ \A k \in (i + 1)..j : k \notin hr /\ EmptyFirst(g0, k)

\* Row i is merged into an earlier row by collapsing.
IsContinuation(g0, hr, i) ==
    \E p \in 0..(i - 1) : IsParent(g0, hr, p) /\ ContinuationOf(g0, hr, p, i)

\* The position in the collapsed grid of the row that row i of g0 (a header
\* row, a parent or an orphan) becomes: one output row per earlier row that
\* is not a continuation.
CollapsedPosition(g0, hr, i) ==
    Cardinality({k \in 0..(i - 1) : ~IsContinuation(g0, hr, k)})

\* The rows of the grid handed to the renderer that hold a columnHeader cell.
HeaderRowsOfRendered(table) ==
    LET g0 == BuildGrid(table).grid
        hr == HeaderCellRows(table)
    IN IF _should_collapse_rows(g0, hr)
       THEN {CollapsedPosition(g0, hr, h) : h \in hr}
       ELSE hr

\* C1: for every table that has a columnHeader cell (all cells in range) and
\* is rendered as a markdown table chunk, no grid row that holds a
\* columnHeader cell is among the rows rendered as markdown body rows, also
\* when the grid was shortened by row collapsing before rendering.
C1_HeaderRowsNotInBody ==
    (/\ JustRendered
     /\ ~is_kv_table
     /\ KeepsMarkdown(table_markdown)
     /\ CellsInRange(FinishedTable)
     /\ HeaderCellRows(FinishedTable) # {})
    => LET body == BodyRows(grid, header_rows, has_explicit_headers)
       IN \A k \in DOMAIN body : body[k] \notin HeaderRowsOfRendered(FinishedTable)

\* C2: row collapsing is idempotent: applying the Row Collapser (trigger
\* check, then _collapse_rows) with the same header-row set to the grid that
\* a first application returned gives that grid back.
C2_CollapseIdempotent ==
    pc = "render"
    => CollapseStep(grid, header_rows, CurrentTable.columnCount) = grid

\* values joined with "; ", built from the right.
RECURSIVE JoinSemicolon(_)
JoinSemicolon(values) ==
    IF values = << >> THEN << >>
    ELSE IF Len(values) = 1 THEN values[1]
    ELSE JoinSemicolon(SubSeq(values, 1, Len(values) - 1)) \o <<";", " ">>
         \o values[Len(values)]

\* The merged value of column c (1-based) of the group of parent row i: the
\* non-empty trimmed values of the parent and then of its continuations, in
\* row order, joined with "; ".
MergedValue(g0, hr, i, c) ==
    LET n    == Cardinality({j \in 0..(Len(g0) - 1) : ContinuationOf(g0, hr, i, j)})
        vals == [k \in 1..(n + 1) |-> strip(OrEmpty(g0[i + k][c]))]
    IN JoinSemicolon(SelectSeq(vals, LAMBDA v : v # << >>))

NameTable == TableOfRows(NameGrid, 2, <<1>>)

NameCollapsed ==
    <<<<<<"N", "a", "m", "e">>, <<"J", "o", "h", "n", ";", " ", "D", "o", "e">>>>,
      <<<<"A", "g", "e">>, <<"3", "0">>>>>>

\* C3: when collapsing has acted, the row that a parent and its continuation
\* rows are flushed into holds, in every column, the non-empty trimmed
\* values of that column, parent first and continuations in order, joined
\* with "; " (the empty string for no value, the value itself for one); the
\* Name/John/Doe/Age grid collapses to [["Name","John; Doe"],["Age","30"]].
C3_MergePerColumn ==
    pc = "render" =>
        LET g0 == BuildGrid(CurrentTable).grid
        IN /\ _should_collapse_rows(g0, header_rows) =>
                \A i \in 0..(Len(g0) - 1) :
                    IsParent(g0, header_rows, i) =>
                        \A c \in 1..CurrentTable.columnCount :
                            grid[CollapsedPosition(g0, header_rows, i) + 1][c]
                                = MergedValue(g0, header_rows, i, c)
           /\ CurrentTable = NameTable => grid = NameCollapsed

\* C3 witness: the Name/John/Doe/Age grid has been collapsed.
C3_Witness == pc = "render" /\ CurrentTable = NameTable /\ grid = NameCollapsed

\* The words of a text, counted by their last characters.
WordEnds(t) ==
    Cardinality({i \in 1..Len(t) :
                    t[i] \notin Whitespace /\ (i = Len(t) \/ t[i + 1] \in Whitespace)})

\* A first-column text is label-like: trimmed length below 40, at most five
\* words, and alphabetic characters / trimmed length above 0.3.
IsLabelText(text) ==
    LET t == strip(text)
    IN /\ Len(t) < 40
       /\ WordEnds(t) <= 5
       /\ 10 * Len(SelectSeq(t, isalpha)) > 3 * Len(t)

\* The classification demanded of a grid with col_count columns.
ShouldBeKV(g, col_count) ==
    /\ col_count = 2
    /\ Len(g) >= 2
    /\ LET R == {r \in 1..Len(g) : OrEmpty(g[r][1]) # << >>}
           L == {r \in R : IsLabelText(g[r][1])}
       IN Cardinality(R) >= 2 /\ 100 * Cardinality(L) >= 60 * Cardinality(R)

InvoiceTable == TableOfRows(InvoiceGrid, 2, <<1>>)

InvoiceBody == <<"I", "n", "v", "o", "i", "c", "e", " ", "N", "o", ":", " ", "F", "1", "2", "3", "\n", "D", "a", "t", "e", ":", " ", "1", "6", "-", "J", "u", "n", "-", "2", "5">>

\* C4: a table is classified key-value iff columnCount is 2, the collapsed
\* grid has at least 2 rows, at least 2 rows have a non-empty first column
\* and the label-like rows are at least 60% of those; so a table with another
\* column count is never key-value, and the Invoice No/Date grid is
\* key-value and renders "Invoice No: F123\nDate: 16-Jun-25".
C4_KeyValueClassification ==
    /\ pc = "render" =>
          /\ is_kv_table <=> ShouldBeKV(grid, CurrentTable.columnCount)
          /\ CurrentTable.columnCount # 2 => ~is_kv_table
    /\ (JustRendered /\ FinishedTable = InvoiceTable) =>
          /\ is_kv_table
          /\ chunks # << >>
          /\ chunks[Len(chunks)].content_type = "table_kv"
          /\ chunks[Len(chunks)].content =
                _build_header(filename, TableKVSection(table_idx - 1), 1) \o InvoiceBody

\* C4 witness: the Invoice No/Date table has been rendered in key-value mode.
C4_Witness ==
    /\ JustRendered
    /\ FinishedTable = InvoiceTable
    /\ is_kv_table
    /\ chunks[Len(chunks)].content_type = "table_kv"

\* The contextual header that a chunk was created with, and the body
\* behind it.
HeaderOf(chunk) ==
    _build_header(filename,
                  IF chunk.content_type = "table_kv"
                  THEN TableKVSection(chunk.metadata.table_index)
                  ELSE chunk.section,
                  chunk.page_number)

BodyOf(chunk) == SubSeq(chunk.content, Len(HeaderOf(chunk)) + 1, Len(chunk.content))

\* The chunk is in the returned list.
Returned(chunk) == \E k \in DOMAIN final_chunks : final_chunks[k] = chunk

\* C5: two chunks of one run with identical bodies and different contextual
\* headers get the same digest from the deduplicator, and the two are never
\* both in the returned list (only the first of them can be), whatever the
\* file name, section and page.
C5_SameBodySameDigest ==
    pc = "done" =>
        \A i \in DOMAIN chunks : \A j \in DOMAIN chunks :
            (i < j /\ BodyOf(chunks[i]) = BodyOf(chunks[j])
                   /\ HeaderOf(chunks[i]) # HeaderOf(chunks[j]))
            => /\ _get_content_hash(chunks[i].content) = _get_content_hash(chunks[j].content)
               /\ ~Returned(chunks[j])

\* The text chunks of the run.
TextChunks == SelectSeq(chunks, LAMBDA c : c.content_type = "text")

\* The content is A<!-- PageBreak -->B, free of tables, with one marker and
\* with A and B, trimmed, longer than min_chunk_length.
TwoSegmentContent ==
    LET parts == split(raw_ocr.content, PageBreak)
    IN /\ Len(parts) = 2
       /\ _remove_tables_from_content(raw_ocr.content) = raw_ocr.content
       /\ Len(strip(parts[1])) > min_chunk_length
       /\ Len(strip(parts[2])) > min_chunk_length

\* Exactly two text chunks, "Page 1" with page_number 1 and "Page 2" with
\* page_number 2, in this order.
TwoPageChunks ==
    /\ Len(TextChunks) = 2
    /\ \A k \in 1..2 :
          /\ TextChunks[k].section = PageSection(k - 1)
          /\ TextChunks[k].page_number = k
          /\ BodyOf(TextChunks[k]) = strip(split(raw_ocr.content, PageBreak)[k])

\* C6 as stated: table-free content A<!-- PageBreak -->B with A and B above
\* the minimum chunk length yields exactly the text chunks "Page 1" and
\* "Page 2", whatever the combined length.
C6_AlwaysTwoPageChunks ==
    (pc \in {"filter", "done"} /\ TwoSegmentContent) => TwoPageChunks

\* C6 amended: such content yields exactly the text chunks "Page 1" and
\* "Page 2" when it is longer than max_chunk_length, and a single text chunk
\* "Document" with page_number 1 when it is not.
C6_TwoPageChunksWhenLong ==
    (pc \in {"filter", "done"} /\ TwoSegmentContent) =>
        IF Len(raw_ocr.content) > max_chunk_length
        THEN TwoPageChunks
        ELSE /\ Len(TextChunks) = 1
             /\ TextChunks[1].section = DocumentSection
             /\ TextChunks[1].page_number = 1
             /\ BodyOf(TextChunks[1]) = raw_ocr.content

\* C6 witness: a two-segment content longer than max_chunk_length has been
\* split into its two page chunks.
C6_Witness ==
    /\ pc = "done"
    /\ TwoSegmentContent
    /\ Len(raw_ocr.content) > max_chunk_length
    /\ Len(TextChunks) = 2
    /\ TextChunks[2].page_number = 2

\* C7: no chunk whose body is a "Page N of M" footer is in the list that
\* extract_chunks returns.
C7_NoPageFooterReturned ==
    pc = "done" =>
        \A k \in DOMAIN final_chunks : ~MatchesPageFooter(strip(BodyOf(final_chunks[k])))

\* The chunks made for the table with index t.
ChunksOfTable(t) ==
    SelectSeq(chunks, LAMBDA c : c.content_type # "text" /\ c.metadata.table_index = t)

\* C8: a table with at least one cell that is not classified key-value
\* yields a 'table' chunk iff its markdown is longer than 20 characters: none
\* for a length up to 20, exactly one from 21 on, and that chunk is at least
\* min_chunk_length long, so the final length filter passes it.
C8_TableChunkIffLongerThan20 ==
    (JustRendered /\ ~is_kv_table) =>
        LET mine == ChunksOfTable(table_idx - 1)
        IN IF Len(table_markdown) >= 21
           THEN /\ Len(mine) = 1
                /\ mine[1].content_type = "table"
                /\ BodyOf(mine[1]) = table_markdown
                /\ Len(mine[1].content) >= min_chunk_length
                /\ FilterStep(mine[1], {}, << >>).kept = <<mine[1]>>
           ELSE mine = << >>

\* C8 witness: a markdown of 21 characters has become a table chunk.
C8_Witness ==
    /\ JustRendered
    /\ ~is_kv_table
    /\ Len(table_markdown) = 21
    /\ Len(ChunksOfTable(table_idx - 1)) = 1

\* The table without the cells whose indices are out of range.
WithoutStrayCells(table) ==
    [table EXCEPT !.cells =
        SelectSeq(table.cells,
                  LAMBDA cell : /\ cell.rowIndex \in 0..(table.rowCount - 1)
                                /\ cell.columnIndex \in 0..(table.columnCount - 1))]

\* C9: a cell whose rowIndex or columnIndex is out of range (negative ones
\* included) is ignored: extract_chunks never raises, and the grid, the
\* header labels and the header-row set are those of the table without such
\* cells.
C9_StrayCellsIgnored ==
    /\ pc # "raised"
    /\ pc = "collapse" =>
          LET b == BuildGrid(WithoutStrayCells(CurrentTable))
          IN /\ grid = b.grid
             /\ headers = b.headers
             /\ header_rows = b.header_rows
             /\ has_explicit_headers = b.has_explicit_headers

\* The chunk passes the minimum-length check and the noise check.
PassesQuality(chunk) ==
    Len(chunk.content) >= min_chunk_length /\ ~_is_noise(chunk.content)

\* The positions among the first n chunks that pass the length check, the
\* noise check and the dedup check: no earlier chunk that passed the first
\* two has the same digest.
KeptPositions(n) ==
    {i \in 1..n :
        /\ PassesQuality(chunks[i])
        /\ \A j \in 1..(i - 1) :
              PassesQuality(chunks[j]) =>
                  _get_content_hash(chunks[j].content) # _get_content_hash(chunks[i].content)}

\* The chunks at the positions K, in list order.
ChunksAt(K) ==
    LET idx == SelectSeq([i \in 1..Len(chunks) |-> i], LAMBDA i : i \in K)
    IN [k \in 1..Len(idx) |-> chunks[idx[k]]]

\* C10: the returned list is the sub-list of (table chunks in table order,
\* then text chunks in split order) made of exactly the chunks that pass the
\* length, noise and dedup checks, each chunk as it was created: table
\* chunks come before text chunks and in increasing table_index order.
C10_OrderedSublist ==
    /\ pc = "filter" => filtered = ChunksAt(KeptPositions(chunk_idx))
    /\ pc = "done" =>
          /\ final_chunks = ChunksAt(KeptPositions(Len(chunks)))
          /\ \A a \in DOMAIN final_chunks : \A b \in DOMAIN final_chunks :
                a < b =>
                    /\ final_chunks[a].content_type = "text"
                           => final_chunks[b].content_type = "text"
                    /\ final_chunks[b].content_type # "text"
                           => final_chunks[a].metadata.table_index
                                  < final_chunks[b].metadata.table_index

\* C10 witness: a run has returned a table chunk and a text chunk and has
\* dropped a duplicate.
C10_Witness ==
    /\ pc = "done"
    /\ \E a \in DOMAIN final_chunks : final_chunks[a].content_type = "table"
    /\ \E b \in DOMAIN final_chunks : final_chunks[b].content_type = "text"
    /\ \E i \in DOMAIN chunks : PassesQuality(chunks[i]) /\ ~Returned(chunks[i])

\* The step-by-step call creates the chunks of extract_chunks as a function.
StepsAgreeWithFunction ==
    /\ pc \in {"filter", "done"} => chunks = CreatedChunks(raw_ocr, filename)
    /\ pc = "raised" => CallRaises(raw_ocr)
    /\ pc = "done" => ~CallRaises(raw_ocr)

\* The digests of the chunks of this call that the filter has gone through.
DigestsSoFar == {_get_content_hash(chunks[i].content) : i \in 1..chunk_idx}

\* C11: in any sequence of calls on one instance, each call returns the
\* list that the same call returns on a newly constructed instance, and
\* self.seen_hashes holds during the filter pass no digest other than those
\* of chunks of this call, so none recorded by an earlier call can drop a
\* chunk.
C11_RunsIndependent ==
    /\ pc = "done" => final_chunks = extract_chunks(raw_ocr, filename)
    /\ pc = "filter" => seen_hashes \subseteq DigestsSoFar

\* C11 witness: a later call on the instance has returned a chunk whose
\* digest the previous call had recorded.
C11_Witness ==
    /\ pc = "done"
    /\ \E k \in DOMAIN final_chunks :
          _get_content_hash(final_chunks[k].content) \in earlier_hashes

\* The text after table stripping.
CleanContent == _remove_tables_from_content(raw_ocr.content)

\* The positions (from 1) of the segments that are long enough to become
\* chunks.
SurvivingOf(segments) ==
    SelectSeq([k \in 1..Len(segments) |-> k],
              LAMBDA k : Len(strip(segments[k])) >= min_chunk_length)

\* The text chunks are the surviving segments in split order, trimmed, and
\* the k-th of them has section "Page <numbers[k]>" and page_number
\* numbers[k].
PageChunksNumbered(segments, surviving, numbers) ==
    LET text_chunks == TextChunks
    IN /\ Len(text_chunks) = Len(surviving)
       /\ \A k \in 1..Len(surviving) :
             /\ BodyOf(text_chunks[k]) = strip(segments[surviving[k]])
             /\ text_chunks[k].section = <<"P", "a", "g", "e", " ">> \o IntToStr(numbers[k])
             /\ text_chunks[k].page_number = numbers[k]

C13_LengthPolicy ==
    pc \in {"filter", "done"} =>
        LET clean       == CleanContent
            L           == Len(clean)
            segments    == split(clean, PageBreak)
            text_chunks == TextChunks
        IN /\ L < min_chunk_length => text_chunks = << >>
           /\ (min_chunk_length <= L /\ L <= max_chunk_length) =>
                 /\ Len(text_chunks) = 1
                 /\ text_chunks[1].section = <<"D", "o", "c", "u", "m", "e", "n", "t">>
                 /\ text_chunks[1].page_number = 1
                 /\ text_chunks[1].metadata = [total_pages |-> raw_ocr.pages]
                 /\ BodyOf(text_chunks[1]) = clean
           /\ L > max_chunk_length =>
                 /\ Len(text_chunks) <= Len(segments)
                 /\ \A k \in DOMAIN text_chunks :
                       /\ text_chunks[k].section # <<"D", "o", "c", "u", "m", "e", "n", "t">>
                       /\ \E n \in DOMAIN segments :
                             BodyOf(text_chunks[k]) = strip(segments[n])

\* C13 witness: a segment longer than max_chunk_length has been returned as
\* one chunk.
C13_Witness ==
    /\ pc = "done"
    /\ \E k \in DOMAIN final_chunks :
          /\ final_chunks[k].content_type = "text"
          /\ Len(BodyOf(final_chunks[k])) > max_chunk_length

\* The digest the deduplicator computes for a chunk.
DigestOf(chunk) == _get_content_hash(chunk.content)

\* C14: after any prefix of the filter pass of a run the kept chunks have
\* pairwise distinct digests, self.seen_hashes is exactly the set of their
\* digests (a chunk rejected by the length or noise check adds none), the
\* kept chunk of a digest is the first chunk of the run that passes the
\* length and noise checks with that digest, and the pass always has its
\* next step (the next chunk, or the return): dropping a duplicate raises
\* nothing.
C14_FirstOccurrenceKept ==
    pc \in {"filter", "done"} =>
        /\ \A i \in DOMAIN filtered : \A j \in DOMAIN filtered :
              i # j => DigestOf(filtered[i]) # DigestOf(filtered[j])
        /\ seen_hashes = {DigestOf(filtered[k]) : k \in DOMAIN filtered}
        /\ \A i \in 1..chunk_idx :
              PassesQuality(chunks[i]) =>
                 LET first == CHOOSE j \in 1..i :
                                 /\ PassesQuality(chunks[j])
                                 /\ DigestOf(chunks[j]) = DigestOf(chunks[i])
                                 /\ \A h \in 1..(j - 1) :
                                       ~(PassesQuality(chunks[h])
                                         /\ DigestOf(chunks[h]) = DigestOf(chunks[i]))
                 IN /\ Returned(chunks[first]) \/ pc = "filter"
                    /\ \E k \in DOMAIN filtered : filtered[k] = chunks[first]
                    /\ \A k \in DOMAIN filtered :
                          DigestOf(filtered[k]) = DigestOf(chunks[i]) => filtered[k] = chunks[first]
        /\ pc = "filter" => chunk_idx \in 0..Len(chunks)

\* C14 witness: the filter pass has kept a chunk and later dropped another
\* chunk that has the digest of the kept one.
C14_Witness ==
    /\ pc \in {"filter", "done"}
    /\ \E i \in 1..chunk_idx : \E j \in 1..(i - 1) :
          /\ PassesQuality(chunks[i])
          /\ DigestOf(chunks[j]) = DigestOf(chunks[i])
          /\ \E k \in DOMAIN filtered : filtered[k] = chunks[j]
          /\ \A k \in DOMAIN filtered : filtered[k] # chunks[i]

\* The grid that the chunk of a table is rendered from: the grid of its
\* cells after row collapsing.
RenderedGrid(table) ==
    LET b == BuildGrid(table)
    IN CollapseStep(b.grid, b.header_rows, table.columnCount)

\* The metadata that the content type of a chunk of the call demands.
MetadataFits(chunk) ==
    LET keys == DOMAIN chunk.metadata
    IN CASE chunk.content_type \in {"table", "table_kv"} ->
               /\ {"table_index", "row_count", "column_count"} \subseteq keys
               /\ chunk.content_type = "table_kv" =>
                      "table_type" \in keys /\ chunk.metadata.table_type = "key_value"
               /\ chunk.metadata.table_index \in 0..(Len(tables) - 1)
               /\ LET table == tables[chunk.metadata.table_index + 1]
                  IN /\ chunk.metadata.row_count = Len(RenderedGrid(table))
                     /\ chunk.metadata.column_count = table.columnCount
          [] chunk.content_type = "text" ->
               /\ "total_pages" \in keys <=> chunk.section = DocumentSection
               /\ chunk.section = DocumentSection =>
                      /\ chunk.metadata = [total_pages |-> raw_ocr.pages]
                      /\ Len(TextChunks) = 1
               /\ chunk.section # DocumentSection => keys = {}
          [] OTHER -> FALSE

\* C15: every returned chunk has content_type text, table or table_kv and
\* the metadata of its type: table_index, row_count and column_count for a
\* table chunk, these and table_type = "key_value" for a table_kv chunk,
\* total_pages for the single whole-document text chunk and nothing for a
\* page chunk; row_count is the number of rows of the collapsed grid that
\* the chunk was rendered from.
C15_MetadataByContentType ==
    /\ pc = "done" => \A k \in DOMAIN final_chunks : MetadataFits(final_chunks[k])
    /\ JustRendered =>
          \A k \in DOMAIN ChunksOfTable(table_idx - 1) :
              ChunksOfTable(table_idx - 1)[k].metadata.row_count = Len(grid)

\* C15 witness: a table chunk of a grid that row collapsing has shortened is
\* returned.
C15_Witness ==
    /\ pc = "done"
    /\ \E k \in DOMAIN final_chunks :
          /\ final_chunks[k].content_type = "table"
          /\ final_chunks[k].metadata.row_count
                 < tables[final_chunks[k].metadata.table_index + 1].rowCount

\* C16: when two calls run concurrently, each on its own instance, then in
\* every interleaving each call returns the list it returns alone, and the
\* seen set of each instance holds during its filter pass exactly digests of
\* earlier chunks of its own call: none recorded, and no reset made, by the
\* other call changes what is dropped.
C16_ConcurrentCallsIndependent ==
    /\ pc = "done" => final_chunks = extract_chunks(raw_ocr, filename)
    /\ pc2 = "done" => final_chunks2 = extract_chunks(raw_ocr2, filename2)
    /\ pc = "filter" =>
          seen_hashes = {DigestOf(chunks[i]) : i \in {j \in 1..chunk_idx : PassesQuality(chunks[j])}}
    /\ pc2 = "filter" =>
          seen_hashes2 =
              {DigestOf(chunks2[i]) : i \in {j \in 1..chunk_idx2 : PassesQuality(chunks2[j])}}

\* C16 witness: both calls are in their filter passes at once, each has kept
\* a chunk, and the two instances have recorded a common digest.
C16_Witness ==
    /\ pc = "filter"
    /\ pc2 = "filter"
    /\ filtered # << >>
    /\ filtered2 # << >>
    /\ chunk_idx < Len(chunks)
    /\ chunk_idx2 < Len(chunks2)
    /\ seen_hashes \cap seen_hashes2 # {}

\* The rows of the grid whose trimmed, colon-stripped first column and
\* trimmed second column are both non-empty.
QualifyingRows(g) ==
    {r \in 1..Len(g) : /\ rstrip_colon(strip(OrEmpty(g[r][1]))) # << >>
                       /\ strip(OrEmpty(g[r][2])) # << >>}

\* The k-th smallest element of a set of row numbers.
NthOf(S, k) == CHOOSE r \in S : Cardinality({q \in S : q < r}) = k - 1

\* One "label: value" entry per qualifying row, in row order.
KVLines(g) ==
    LET Q == QualifyingRows(g)
    IN [k \in 1..Cardinality(Q) |->
           rstrip_colon(strip(OrEmpty(g[NthOf(Q, k)][1]))) \o <<":", " ">> \o
           strip(OrEmpty(g[NthOf(Q, k)][2]))]

\* C18: a key-value table renders one "label: value" line per grid row whose
\* label and value are both non-empty, in row order, skipping the other rows;
\* when no row qualifies it yields no chunk at all; every table yields at
\* most one chunk and a key-value table never yields a 'table' chunk.
C18_KVRendering ==
    /\ \A t \in 0..(Len(tables) - 1) : Len(ChunksOfTable(t)) <= 1
    /\ (JustRendered /\ is_kv_table) =>
          LET mine  == ChunksOfTable(table_idx - 1)
              lines == KVLines(grid)
          IN IF lines = << >>
             THEN mine = << >>
             ELSE /\ Len(mine) = 1
                  /\ mine[1].content_type = "table_kv"
                  /\ BodyOf(mine[1]) = join(<<"\n">>, lines)

\* C18 witness: a key-value table of which some rows were rendered and some
\* were skipped.
C18_Witness ==
    /\ JustRendered
    /\ is_kv_table
    /\ QualifyingRows(grid) # {}
    /\ QualifyingRows(grid) # 1..Len(grid)
    /\ Len(ChunksOfTable(table_idx - 1)) = 1

\* A key-value table of which no row qualifies has been passed without a chunk.
KVNoRowQualifies ==
    /\ JustRendered
    /\ is_kv_table
    /\ QualifyingRows(grid) = {}
    /\ ChunksOfTable(table_idx - 1) = << >>

\* The key-value table of ColonGrid has been rendered.
KVColonRendered ==
    /\ JustRendered
    /\ FinishedTable = TableOfRows(ColonGrid, 2, <<1>>)
    /\ is_kv_table
    /\ BodyOf(chunks[Len(chunks)]) =
          <<"A", "b", ":", " ", "x", "\n", "A", "b", ":", " ", "v", "\n", "A", "b", ":", " ", "x">>

\* The rows 0..Len(g0)-1 of an uncollapsed grid by kind: header rows, parent
\* rows (a non-header row with a non-empty first column) and the other rows.
HeaderRowsIn(g0, hr) == {i \in 0..(Len(g0) - 1) : i \in hr}

ParentRowsIn(g0, hr) ==
    {i \in 0..(Len(g0) - 1) : i \notin hr /\ strip(OrEmpty(g0[i + 1][1])) # << >>}

EmptyFirstRowsIn(g0, hr) ==
    (0..(Len(g0) - 1)) \ (HeaderRowsIn(g0, hr) \cup ParentRowsIn(g0, hr))

\* The header and parent rows before row i, and the nearest of them.
AnchorsBefore(g0, hr, i) ==
    {k \in HeaderRowsIn(g0, hr) \cup ParentRowsIn(g0, hr) : k < i}

NearestAnchor(g0, hr, i) ==
    CHOOSE k \in AnchorsBefore(g0, hr, i) : \A q \in AnchorsBefore(g0, hr, i) : q <= k

\* An orphan: a row with an empty first column that no header or parent row
\* precedes, or whose nearest preceding header or parent row is a header row.
OrphanRowsIn(g0, hr) ==
    {i \in EmptyFirstRowsIn(g0, hr) :
        \/ AnchorsBefore(g0, hr, i) = {}
        \/ NearestAnchor(g0, hr, i) \in hr}

\* The rows merged into parent row p: the rows with an empty first column
\* whose nearest preceding header or parent row is p.
GroupOf(g0, hr, p) ==
    {p} \cup {i \in EmptyFirstRowsIn(g0, hr) \ OrphanRowsIn(g0, hr) :
                NearestAnchor(g0, hr, i) = p}

\* The rows that have an output row of their own, and the place of it.
OutputRowsIn(g0, hr) ==
    HeaderRowsIn(g0, hr) \cup ParentRowsIn(g0, hr) \cup OrphanRowsIn(g0, hr)

OutputPlace(g0, hr, i) == Cardinality({k \in OutputRowsIn(g0, hr) : k < i}) + 1

\* The non-empty trimmed values of column c in the rows of a set, in row
\* order, joined with "; ".
GroupValue(g0, rows, c) ==
    LET vals == [k \in 1..Cardinality(rows) |-> strip(OrEmpty(g0[NthOf(rows, k) + 1][c]))]
    IN JoinSemicolon(SelectSeq(vals, LAMBDA v : v # << >>))

\* C19: _collapse_rows outputs the header rows and the orphans unchanged and
\* one merged row per parent row, in the original relative order; a row with
\* an empty first column is merged only into the nearest preceding parent
\* with no header row in between, and is an orphan when there is none; the
\* output has (header rows) + (parent rows) + (orphan rows) rows.
C19_CollapseOrder ==
    pc = "render" =>
        LET g0   == BuildGrid(CurrentTable).grid
            hr   == header_rows
            cols == CurrentTable.columnCount
            out  == _collapse_rows(g0, hr, cols)
        IN /\ _should_collapse_rows(g0, hr) => grid = out
           /\ Len(out) = Cardinality(HeaderRowsIn(g0, hr)) + Cardinality(ParentRowsIn(g0, hr))
                            + Cardinality(OrphanRowsIn(g0, hr))
           /\ \A i \in HeaderRowsIn(g0, hr) \cup OrphanRowsIn(g0, hr) :
                  out[OutputPlace(g0, hr, i)] = g0[i + 1]
           /\ \A p \in ParentRowsIn(g0, hr) : \A c \in 1..cols :
                  out[OutputPlace(g0, hr, p)][c] = GroupValue(g0, GroupOf(g0, hr, p), c)

\* C19 witness: a grid was collapsed in which a header row separates a
\* parent row from a later row with an empty first column, which is an
\* orphan.
C19_Witness ==
    /\ pc = "render"
    /\ LET g0 == BuildGrid(CurrentTable).grid
       IN /\ _should_collapse_rows(g0, header_rows)
          /\ grid = _collapse_rows(g0, header_rows, CurrentTable.columnCount)
          /\ \E p \in ParentRowsIn(g0, header_rows), h \in HeaderRowsIn(g0, header_rows),
                o \in OrphanRowsIn(g0, header_rows) : p < h /\ h < o

\* A grid was collapsed that holds a header row, an orphan before any parent
\* and a parent with a continuation.
CollapsedWithLeadingOrphan ==
    /\ pc = "render"
    /\ LET g0 == BuildGrid(CurrentTable).grid
       IN /\ _should_collapse_rows(g0, header_rows)
          /\ \E o \in OrphanRowsIn(g0, header_rows), p \in ParentRowsIn(g0, header_rows) :
                o < p /\ GroupOf(g0, header_rows, p) # {p}

\* The lines that the line loop of _remove_tables_from_content runs over.
ContentLines == split(RemoveHtmlTables(raw_ocr.content), <<"\n">>)

\* A table line: trimmed, it starts with '|' and holds a second '|', or it
\* is made of pipes, dashes, colons and whitespace between two pipes.
TableLineText(line) ==
    LET t == strip(line)
    IN /\ Len(t) >= 2
       /\ t[1] = "|"
       /\ \/ Cardinality({i \in 1..Len(t) : t[i] = "|"}) >= 2
          \/ /\ Len(t) >= 3
             /\ t[Len(t)] = "|"
             /\ \A i \in 2..(Len(t) - 1) : t[i] \in Whitespace \cup {"-", ":", "|"}

BlankLine(line) == strip(line) = << >>

\* The lines (by position) that the pass removes: the table lines and the
\* blank lines that immediately follow a table line.
RemovedLines(lines) ==
    {k \in 1..Len(lines) :
        \/ TableLineText(lines[k])
        \/ BlankLine(lines[k]) /\ k > 1 /\ TableLineText(lines[k - 1])}

\* The other lines, unchanged and in the original order.
KeptLines(lines) ==
    LET K == (1..Len(lines)) \ RemovedLines(lines)
    IN [j \in 1..Cardinality(K) |-> lines[NthOf(K, j)]]

\* C20: the markdown-table stripping pass removes every table line, removes
\* a blank line iff it immediately follows a table line, and keeps every
\* other line unchanged and in the original order; the text chunk of a
\* content of min_chunk_length..max_chunk_length cleaned characters is made of
\* exactly the kept lines.
C20_TableLinesStripped ==
    pc \in {"filter", "done"} =>
        LET lines == ContentLines
            kept  == join(<<"\n">>, KeptLines(lines))
        IN /\ CleanContent = kept
           /\ (min_chunk_length <= Len(kept) /\ Len(kept) <= max_chunk_length) =>
                 /\ Len(TextChunks) = 1
                 /\ BodyOf(TextChunks[1]) = kept
           /\ raw_ocr.content = LinesContent => CleanContent = LinesCleaned

\* C20 witness: a text chunk was returned for a content in which a blank
\* line after a table line was removed, the blank line after it was kept,
\* and a line with a single pipe was kept.
C20_Witness ==
    /\ pc = "done"
    /\ \E k \in DOMAIN final_chunks : final_chunks[k].content_type = "text"
    /\ LET lines == ContentLines
       IN /\ \E k \in 2..(Len(lines) - 1) :
                /\ TableLineText(lines[k - 1])
                /\ BlankLine(lines[k])
                /\ BlankLine(lines[k + 1])
                /\ k \in RemovedLines(lines)
                /\ k + 1 \notin RemovedLines(lines)
          /\ \E k \in 1..Len(lines) :
                /\ k \notin RemovedLines(lines)
                /\ \E i \in 1..Len(lines[k]) : lines[k][i] = "|"

\* The positions at which the tags start in s.
OpenTagsIn(s) == {o \in 1..(Len(s) - 6) : SubSeq(s, o, o + 6) = OpenTag}

CloseTagsIn(s) == {c \in 1..(Len(s) - 7) : SubSeq(s, c, c + 7) = CloseTag}

\* The nearest </table> that starts behind the <table> at o.
ClosesBehind(s, o) == {c \in CloseTagsIn(s) : c >= o + 7}

NearestClose(s, o) == CHOOSE c \in ClosesBehind(s, o) : \A d \in ClosesBehind(s, o) : c <= d

\* The <table> positions from which a block is removed, from position i on:
\* the first <table> that has a </table> behind it, then the same behind the
\* end of that block.
RECURSIVE BlockStartsFrom(_, _)
BlockStartsFrom(s, i) ==
    LET opens == {o \in OpenTagsIn(s) : o >= i /\ ClosesBehind(s, o) # {}}
    IN IF opens = {} THEN {}
       ELSE LET o == CHOOSE p \in opens : \A q \in opens : p <= q
            IN {o} \cup BlockStartsFrom(s, NearestClose(s, o) + 8)

\* s without its blocks: each block runs from its <table> through the end of
\* the nearest </table> behind it.
WithoutBlocks(s) ==
    IF find(s, OpenTag) = -1 THEN s
    ELSE LET removed == UNION {o..(NearestClose(s, o) + 7) : o \in BlockStartsFrom(s, 1)}
         IN Pick(s, [k \in 1..Len(s) |-> k \notin removed], 1, Len(s))

\* The text passed on to page splitting when the table-tag removal leaves t.
PassedOn(t) == join(<<"\n">>, KeptLines(split(t, <<"\n">>)))

\* The content holds two table blocks and differs between the two readings.
BlocksApart ==
    RemoveHtmlTablesGreedy(raw_ocr.content) # WithoutBlocks(raw_ocr.content)

\* C21: HTML table removal is greedy across lines: everything from the
\* first <table> through the last </table> that follows it, the text between
\* two separate table blocks included, is missing from the text passed on
\* to page splitting.
C21_GreedyRemoval ==
    pc \in {"filter", "done"} =>
        CleanContent = PassedOn(RemoveHtmlTablesGreedy(raw_ocr.content))

\* C21 as the code has it: the removal is not greedy.  Each <table> is
\* removed together with everything, line breaks included, up to and
\* including the nearest </table> behind it; the text between two separate
\* table blocks is kept, and a <table> with no </table> behind it stays.
C21_NearestCloseRemoval ==
    pc \in {"filter", "done"} =>
        LET passed == PassedOn(WithoutBlocks(raw_ocr.content))
        IN /\ CleanContent = passed
           /\ (min_chunk_length <= Len(passed) /\ Len(passed) <= max_chunk_length) =>
                 /\ Len(TextChunks) = 1
                 /\ BodyOf(TextChunks[1]) = passed
           /\ raw_ocr.content = TwoTablesContent =>
                 CleanContent = Rep("w", 30) \o <<"\n", "\n">> \o MidText \o <<"\n", "\n">>
                                \o Rep("v", 30)
           /\ raw_ocr.content = NestedTableContent =>
                 CleanContent = Rep("w", 30) \o <<"c">> \o CloseTag \o Rep("v", 30)
           /\ raw_ocr.content = UnclosedTableContent => CleanContent = raw_ocr.content

\* C21 witness: a text chunk was returned that holds the text between two
\* separate table blocks of the content.
C21_Witness ==
    /\ pc = "done"
    /\ BlocksApart
    /\ \E k \in DOMAIN final_chunks :
          /\ final_chunks[k].content_type = "text"
          /\ find(final_chunks[k].content, MidText) # -1

\* ---------------------------------------------------------------------------
\* The polling loop of analyze_layout_rest (src/azure_ocr.py), entered after
\* the submission was accepted.  attempt is the loop's counter, polls counts
\* the requests.get calls, status is the kind of the last response.  The
\* sleeps between polls change no state and are not modelled.
\* ---------------------------------------------------------------------------

\* Largest max_attempts argument explored.
MaxAttempts == 3

\* Cap on the number of poll requests explored.
MaxPolls == 6

\* while attempt < max_attempts: poll = requests.get(...)
PollRequest ==
    /\ poll_pc = "polling"
    /\ attempt < max_attempts
    /\ polls < MaxPolls
    /\ polls' = polls + 1

\* Status 429 or 503 with an absent or integer retry-after header: sleep and
\* continue, attempt is not incremented.
PollThrottled ==
    /\ PollRequest
    /\ status' = "throttled"
    /\ UNCHANGED <<max_attempts, attempt, poll_pc>>
    /\ UNCHANGED <<first_vars, earlier_hashes, second_vars>>

\* Status 429 or 503 whose retry-after header is not an integer (an HTTP
\* date): int(...) raises ValueError, which the except clause does not catch.
PollThrottledBadHeader ==
    /\ PollRequest
    /\ status' = "throttled"
    /\ poll_pc' = "value_error"
    /\ UNCHANGED <<max_attempts, attempt>>
    /\ UNCHANGED <<first_vars, earlier_hashes, second_vars>>

\* Status 404: sleep and continue, attempt is not incremented.
PollNotReady ==
    /\ PollRequest
    /\ status' = "not_ready"
    /\ UNCHANGED <<max_attempts, attempt, poll_pc>>
    /\ UNCHANGED <<first_vars, earlier_hashes, second_vars>>

\* status == "succeeded": return result.
PollSucceeded ==
    /\ PollRequest
    /\ status' = "succeeded"
    /\ poll_pc' = "returned"
    /\ UNCHANGED <<max_attempts, attempt>>
    /\ UNCHANGED <<first_vars, earlier_hashes, second_vars>>

\* status == "failed": raise RuntimeError (RuntimeError is not a
\* RequestException, so it leaves the loop).
PollFailed ==
    /\ PollRequest
    /\ status' = "failed"
    /\ poll_pc' = "analysis_failed"
    /\ UNCHANGED <<max_attempts, attempt>>
    /\ UNCHANGED <<first_vars, earlier_hashes, second_vars>>

\* Any other status: sleep with backoff, attempt += 1.
PollRunning ==
    /\ PollRequest
    /\ status' = "running"
    /\ attempt' = attempt + 1
    /\ UNCHANGED <<max_attempts, poll_pc>>
    /\ UNCHANGED <<first_vars, earlier_hashes, second_vars>>

\* requests.get or raise_for_status raises a RequestException: attempt += 1.
PollException ==
    /\ PollRequest
    /\ status' = "error"
    /\ attempt' = attempt + 1
    /\ UNCHANGED <<max_attempts, poll_pc>>
    /\ UNCHANGED <<first_vars, earlier_hashes, second_vars>>

\* The loop condition fails: raise RuntimeError("Polling timeout ...").
PollTimeout ==
    /\ poll_pc = "polling"
    /\ ~(attempt < max_attempts)
    /\ poll_pc' = "timeout"
    /\ UNCHANGED <<max_attempts, attempt, status, polls>>
    /\ UNCHANGED <<first_vars, earlier_hashes, second_vars>>

\* The state on entering the loop: attempt = 0, nothing polled yet.
InitPoll ==
    /\ raw_ocr = Document(<< >>, << >>, 0)
    /\ filename = <<"d">>
    /\ NewInstance
    /\ NoSecondCall
    /\ max_attempts \in 0..MaxAttempts
    /\ attempt = 0
    /\ status = "none"
    /\ polls = 0
    /\ poll_pc = "polling"

NextPoll ==
    \/ PollThrottled
    \/ PollThrottledBadHeader
    \/ PollNotReady
    \/ PollSucceeded
    \/ PollFailed
    \/ PollRunning
    \/ PollException
    \/ PollTimeout

SpecPoll == InitPoll /\ [][NextPoll]_vars

\* C17: the polling loop performs at most max_attempts poll requests.
C17_AtMostMaxAttemptsPolls == polls <= max_attempts

\* What the loop does bound: the polls that were counted as attempts.
CountedPollsBounded ==
    /\ attempt <= max_attempts
    /\ attempt <= polls
    /\ poll_pc = "timeout" => attempt >= max_attempts
    /\ poll_pc = "returned" => status = "succeeded"
    /\ poll_pc = "analysis_failed" => status = "failed"

====
